---------------------------- MODULE Spec2Model ----------------------------
(***************************************************************************)
(* A model of two components of paho.golang:                               *)
(*   - MIDs, the packet-identifier correlation service                     *)
(*     (paho/message_ids.go);                                              *)
(*   - Router, the context-aware topic router with middleware              *)
(*     (paho/extensions/routercontext, the same dispatch algorithm as      *)
(*     paho/router.go).                                                    *)
(***************************************************************************)
EXTENDS Integers, Sequences, FiniteSets, TLC

(***************************************************************************)
(* Bounds of the model.                                                    *)
(***************************************************************************)
\* The identifier space 1..65535 of the code (uint16), scaled down.
MaxID == 3
\* Concurrent callers of the MIDs service; also the distinct waiters.
NProcs == 2

Procs == 1..NProcs
Waiters == 1..NProcs
IDs == 0..MaxID
NoProc == 0
NilWaiter == 0

VARIABLES
    index,        \* MIDs.index: the map id -> waiter, as a function on its keys
    lastIdUsed,   \* MIDs.lastIdUsed
    mutex,        \* MIDs.Mutex: NoProc, or the caller that holds it
    pc,           \* where each caller is in its current call
    waiter,       \* the argument c of a caller's Request
    id,           \* Request's local i / the argument of Get and Free
    rid,          \* the identifier a Request is returning
    rerr,         \* whether a Request is returning ErrNoMoreIDs
    got,          \* the waiter a Get is returning
    cached,       \* <<t>>: the table t a Request loaded before a Clear replaced it
    outstanding,  \* history: how many issued and not yet freed requests hold each id
    ledger,       \* history: what the one caller was told about each id
    issued,       \* history: the id of the caller's last successful Request
    abandoned,    \* the ids held whose waiter has given up waiting
    aborted,      \* history: the callers whose last Route call ended in a panic
    mRoute,       \* the route pattern handed to match
    mTopic,       \* the topic handed to match
    mResult,      \* what match did: <<>> before the calls, then the results
    subscriptions,  \* Router.subscriptions: route pattern -> list of handlers
    defaultHandler, \* Router.defaultHandler, NilHandler when unset
    middlewares,    \* Router.middlewares
    aliases,        \* Router.aliases: topic alias -> topic
    readers,        \* Router.RWMutex: the callers that hold it for reading
    routing,        \* where each caller is in its Route call, its packet and topic
    writer,         \* Router.RWMutex: NoProc, or the caller that holds it for writing
    registering,    \* where each caller is in its RegisterHandler call, its arguments
    registered,     \* history: the RegisterHandler calls that returned, per pattern
    dispatch,       \* where each caller is in the loop of its Route call, its context
    debug,          \* Router.debug: the sink the operations log to
    locking,        \* the registry operation each caller is waiting in r.Lock() of
    lastOp,         \* history: the last call on the router and its arguments
    trace,          \* history: what the last Route ran, in order
    outcome         \* history: how the last Route ended

midVars == <<index, lastIdUsed, mutex, pc, waiter, id, rid, rerr, got, cached, outstanding>>
matchVars == <<mRoute, mTopic, mResult>>
\* The state of the calls that are followed step by step.
stepVars == <<writer, registering, registered, dispatch>>
routerVars ==
    <<subscriptions, defaultHandler, middlewares, aliases, readers, routing,
      lastOp, trace, outcome, stepVars, debug, locking>>
obsVars == <<ledger, issued, abandoned, aborted>>
vars == <<midVars, matchVars, routerVars, obsVars>>

Min(S) == CHOOSE x \in S : \A y \in S : x <= y

\* a delete that empties the table
MapDeleteAll(m, k) == IF k \in DOMAIN m THEN <<>> ELSE m
\* delete(m.index, i)
MapDelete(m, k) == [x \in DOMAIN m \ {k} |-> m[x]]
\* m.index[i] = c
MapStore(m, k, v) == (k :> v) @@ m
\* a lookup that falls back on the lowest key in use
MapGetNearest(m, k) ==
    IF k \in DOMAIN m THEN m[k]
    ELSE IF DOMAIN m # {} THEN m[Min(DOMAIN m)] ELSE NilWaiter
\* m.index[i], nil when absent
MapGet(m, k) == IF k \in DOMAIN m THEN m[k] ELSE NilWaiter

(***************************************************************************)
(* sync.Mutex                                                              *)
(***************************************************************************)
MutexFreeBroken == TRUE
MutexFree == mutex = NoProc

(***************************************************************************)
(* MIDs.Request                                                            *)
(***************************************************************************)
\* lines 54-58, with the plausible slip of wrapping to 0
NextCursorWrapsToZero(last) == (last + 1) % (MaxID + 1)
\* lines 54-58: if m.lastIdUsed < 65535 { m.lastIdUsed++ } else { m.lastIdUsed = 1 }
NextCursor(last) == IF last < MaxID THEN last + 1 ELSE 1

\* getNextId falling back on the identifier it started from
getNextIdReuse(idx, startFrom) ==
    LET from == IF startFrom > MaxID THEN 1 ELSE startFrom
        free == {k \in from..(MaxID - 1) : k \notin DOMAIN idx}
    IN  IF free = {} THEN from ELSE Min(free)
\* lines 76-88. startFrom is a uint16, so "startFrom > 65535" never holds;
\* the loop runs i over startFrom..65534.
getNextId(idx, startFrom) ==
    LET from == IF startFrom > MaxID THEN 1 ELSE startFrom
        free == {k \in from..(MaxID - 1) : k \notin DOMAIN idx}
    IN  IF free = {} THEN 0 ELSE Min(free)

\* The call: the caller reaches m.Lock() (line 51).
RequestCall(p, c) ==
    /\ pc[p] = "idle"
    /\ pc' = [pc EXCEPT ![p] = "req_lock"]
    /\ waiter' = [waiter EXCEPT ![p] = c]
    /\ UNCHANGED <<index, lastIdUsed, mutex, id, rid, rerr, got, outstanding, cached>>

\* line 51: m.Lock()
RequestLock(p) ==
    /\ pc[p] = "req_lock"
    /\ MutexFree
    /\ mutex' = p
    /\ pc' = [pc EXCEPT ![p] = "req_probe"]
    /\ UNCHANGED <<index, lastIdUsed, waiter, id, rid, rerr, got, outstanding, cached>>

\* lines 54-61: advance the cursor, i := m.lastIdUsed, test m.index[i]
RequestProbe(p) ==
    /\ pc[p] = "req_probe"
    /\ lastIdUsed' = NextCursor(lastIdUsed)
    /\ id' = [id EXCEPT ![p] = lastIdUsed']
    /\ pc' = [pc EXCEPT ![p] = IF lastIdUsed' \notin DOMAIN index
                                 THEN "req_store" ELSE "req_next"]
    /\ UNCHANGED <<index, mutex, waiter, rid, rerr, got, outstanding, cached>>

\* Request loads m.index at line 61 and again at lines 62, 68 and 82. When
\* a Clear, which takes no lock, has replaced the table in between, each of
\* the later accesses goes to the new table or, the earlier load being
\* reused, to the one that was replaced: a read sees either, a write lands
\* in the table or is lost with the replaced one.
Tables(p) == {index} \cup {cached[p][k] : k \in DOMAIN cached[p]}
Landings(p) == IF cached[p] = <<>> THEN {TRUE} ELSE {TRUE, FALSE}

\* lines 62-63: m.index[i] = c; return i, nil
RequestStore(p) ==
    /\ pc[p] = "req_store"
    /\ \E landed \in Landings(p) :
          index' = IF landed THEN MapStore(index, id[p], waiter[p]) ELSE index
    /\ outstanding' = [outstanding EXCEPT ![id[p]] = @ + 1]
    /\ rid' = [rid EXCEPT ![p] = id[p]]
    /\ rerr' = [rerr EXCEPT ![p] = FALSE]
    /\ pc' = [pc EXCEPT ![p] = "req_ret"]
    /\ cached' = [cached EXCEPT ![p] = <<>>]
    /\ UNCHANGED <<lastIdUsed, mutex, waiter, id, got>>

\* lines 66-73 with the cursor put back where it was when Request fails
RequestNextRestores(p) ==
    /\ pc[p] = "req_next"
    /\ \E table \in Tables(p), landed \in Landings(p) :
       LET i == getNextId(table, id[p])
       IN  IF i > 0
           THEN /\ index' = IF landed THEN MapStore(index, i, waiter[p]) ELSE index
                /\ outstanding' = [outstanding EXCEPT ![i] = @ + 1]
                /\ lastIdUsed' = i
                /\ id' = [id EXCEPT ![p] = i]
                /\ rid' = [rid EXCEPT ![p] = i]
                /\ rerr' = [rerr EXCEPT ![p] = FALSE]
           ELSE /\ rid' = [rid EXCEPT ![p] = 0]
                /\ rerr' = [rerr EXCEPT ![p] = TRUE]
                /\ id' = [id EXCEPT ![p] = i]
                /\ lastIdUsed' = IF lastIdUsed > 1 THEN lastIdUsed - 1 ELSE MaxID
                /\ UNCHANGED <<index, outstanding>>
    /\ pc' = [pc EXCEPT ![p] = "req_ret"]
    /\ cached' = [cached EXCEPT ![p] = <<>>]
    /\ UNCHANGED <<mutex, waiter, got>>
\* lines 66-73: i = m.getNextId(i); store and move the cursor, or fail
RequestNext(p) ==
    /\ pc[p] = "req_next"
    /\ \E table \in Tables(p), landed \in Landings(p) :
       LET i == getNextId(table, id[p])
       IN  IF i > 0
           THEN /\ index' = IF landed THEN MapStore(index, i, waiter[p]) ELSE index
                /\ outstanding' = [outstanding EXCEPT ![i] = @ + 1]
                /\ lastIdUsed' = i
                /\ id' = [id EXCEPT ![p] = i]
                /\ rid' = [rid EXCEPT ![p] = i]
                /\ rerr' = [rerr EXCEPT ![p] = FALSE]
           ELSE /\ rid' = [rid EXCEPT ![p] = 0]
                /\ rerr' = [rerr EXCEPT ![p] = TRUE]
                /\ id' = [id EXCEPT ![p] = i]
                /\ UNCHANGED <<index, outstanding, lastIdUsed>>
    /\ pc' = [pc EXCEPT ![p] = "req_ret"]
    /\ cached' = [cached EXCEPT ![p] = <<>>]
    /\ UNCHANGED <<mutex, waiter, got>>

\* the return, with the deferred m.Unlock() of line 52
RequestReturn(p) ==
    /\ pc[p] = "req_ret"
    /\ mutex' = NoProc
    /\ pc' = [pc EXCEPT ![p] = "idle"]
    /\ waiter' = [waiter EXCEPT ![p] = NilWaiter]
    /\ id' = [id EXCEPT ![p] = 0]
    /\ rid' = [rid EXCEPT ![p] = 0]
    /\ rerr' = [rerr EXCEPT ![p] = FALSE]
    /\ UNCHANGED <<index, lastIdUsed, got, outstanding, cached>>

(***************************************************************************)
(* MIDs.Get                                                                *)
(***************************************************************************)
\* The call: the caller reaches m.Lock() (line 93).
GetCall(p) ==
    /\ pc[p] = "idle"
    /\ pc' = [pc EXCEPT ![p] = "get_lock"]
    /\ UNCHANGED <<index, lastIdUsed, mutex, waiter, id, rid, rerr, got, outstanding, cached>>

\* lines 93, 95: m.Lock(); the result m.index[i] is evaluated for the
\* argument i of the call
GetLock(p, i) ==
    /\ pc[p] = "get_lock"
    /\ MutexFree
    /\ mutex' = p
    /\ id' = [id EXCEPT ![p] = i]
    /\ got' = [got EXCEPT ![p] = MapGet(index, i)]
    /\ pc' = [pc EXCEPT ![p] = "get_ret"]
    /\ UNCHANGED <<index, lastIdUsed, waiter, rid, rerr, outstanding, cached>>

\* the return, with the deferred m.Unlock() of line 94
GetReturn(p) ==
    /\ pc[p] = "get_ret"
    /\ mutex' = NoProc
    /\ pc' = [pc EXCEPT ![p] = "idle"]
    /\ id' = [id EXCEPT ![p] = 0]
    /\ got' = [got EXCEPT ![p] = NilWaiter]
    /\ UNCHANGED <<index, lastIdUsed, waiter, rid, rerr, outstanding, cached>>

(***************************************************************************)
(* MIDs.Free                                                               *)
(***************************************************************************)
\* The call: the caller reaches m.Lock() (line 101).
FreeCall(p) ==
    /\ pc[p] = "idle"
    /\ pc' = [pc EXCEPT ![p] = "free_lock"]
    /\ UNCHANGED <<index, lastIdUsed, mutex, waiter, id, rid, rerr, got, outstanding, cached>>

\* line 101: m.Lock(), for the argument i of the call
FreeLock(p, i) ==
    /\ pc[p] = "free_lock"
    /\ MutexFree
    /\ mutex' = p
    /\ id' = [id EXCEPT ![p] = i]
    /\ pc' = [pc EXCEPT ![p] = "free_del"]
    /\ UNCHANGED <<index, lastIdUsed, waiter, rid, rerr, got, outstanding, cached>>

\* lines 102-103: delete(m.index, i); m.Unlock()
FreeDelete(p) ==
    /\ pc[p] = "free_del"
    /\ index' = MapDelete(index, id[p])
    /\ outstanding' = [outstanding EXCEPT ![id[p]] = 0]
    /\ mutex' = NoProc
    /\ pc' = [pc EXCEPT ![p] = "idle"]
    /\ id' = [id EXCEPT ![p] = 0]
    /\ UNCHANGED <<lastIdUsed, waiter, rid, rerr, got, cached>>

(***************************************************************************)
(* MIDs.Clear: replaces the table; takes no lock (lines 108-110)           *)
(***************************************************************************)
ClearKeepsTable(p) ==
    /\ pc[p] = "idle"
    /\ UNCHANGED <<index, outstanding, cached>>
    /\ UNCHANGED <<lastIdUsed, mutex, pc, waiter, id, rid, rerr, got>>
\* a Clear that also starts the cursor over
ClearResetsCursor(p) ==
    /\ pc[p] = "idle"
    /\ index' = <<>>
    /\ lastIdUsed' = 0
    /\ cached' = [q \in Procs |->
                    IF pc[q] \in {"req_store", "req_next"} /\ cached[q] = <<>>
                    THEN <<index>> ELSE cached[q]]
    /\ outstanding' = [i \in IDs |-> 0]
    /\ UNCHANGED <<mutex, pc, waiter, id, rid, rerr, got>>
\* line 109: m.index = make(map[uint16]*CPContext)
Clear(p) ==
    /\ pc[p] = "idle"
    /\ index' = <<>>
    /\ cached' = [q \in Procs |->
                    IF pc[q] \in {"req_store", "req_next"} /\ cached[q] = <<>>
                    THEN <<index>> ELSE cached[q]]
    /\ outstanding' = [i \in IDs |-> 0]
    /\ UNCHANGED <<lastIdUsed, mutex, pc, waiter, id, rid, rerr, got>>

(***************************************************************************)
(* Strings are sequences of characters, so that strings.Split and          *)
(* strings.HasPrefix are computed on them.                                 *)
(***************************************************************************)
Slash == "/"
Plus == <<"+">>
Hash == <<"#">>
Share == <<"$", "s", "h", "a", "r", "e">>

\* All strings of at most n characters over the alphabet A.
Strings(A, n) == UNION {[1..k -> A] : k \in 0..n}

\* strings.HasPrefix(s, prefix)
HasPrefix(s, prefix) ==
    /\ Len(s) >= Len(prefix)
    /\ SubSeq(s, 1, Len(prefix)) = prefix

\* strings.Split(s, "/"): the pieces between the separators, one more than
\* there are separators (so Split("") is one empty piece).
Split(s) ==
    LET seps == {i \in 1..Len(s) : s[i] = Slash}
        n == Cardinality(seps)
        sep(k) == IF k = 0 THEN 0
                  ELSE IF k = n + 1 THEN Len(s) + 1
                  ELSE CHOOSE i \in seps : Cardinality({j \in seps : j < i}) = k - 1
    IN  [k \in 1..(n + 1) |-> SubSeq(s, sep(k - 1) + 1, sep(k) - 1)]

\* What a call did: it returned value, or it panicked.
Returned(value) == [panic |-> FALSE, value |-> value]
Panicked == [panic |-> TRUE, value |-> FALSE]

\* routeSplit with the slice taken without a length check clamped to the end
\* (what a guarded implementation would do).
routeSplitClamped(route) ==
    IF Len(route) = 0 THEN Returned(<<>>)
    ELSE IF HasPrefix(route, Share)
         THEN Returned(SubSeq(Split(route), 3, Len(Split(route))))
         ELSE Returned(Split(route))

\* routeSplit (part_000 lines 189-200). strings.Split(route, "/")[2:] panics
\* with "slice bounds out of range" when Split yields fewer than 2 pieces.
routeSplit(route) ==
    IF Len(route) = 0 THEN Returned(<<>>)
    ELSE IF HasPrefix(route, Share)
         THEN LET parts == Split(route)
              IN  IF Len(parts) < 2 THEN Panicked
                  ELSE Returned(SubSeq(parts, 3, Len(parts)))
         ELSE Returned(Split(route))

\* topicSplit (part_000 lines 203-208)
topicSplit(topic) == IF Len(topic) = 0 THEN <<>> ELSE Split(topic)

\* matchDeep where "#" does not match an exhausted topic.
RECURSIVE matchDeepHashNeedsLevel(_, _)
matchDeepHashNeedsLevel(route, topic) ==
    IF Len(route) = 0 THEN Len(topic) = 0
    ELSE IF Len(topic) = 0 THEN FALSE
    ELSE IF route[1] = Hash THEN TRUE
    ELSE IF route[1] = Plus \/ route[1] = topic[1]
         THEN matchDeepHashNeedsLevel(Tail(route), Tail(topic))
         ELSE FALSE

\* matchDeep (part_000 lines 164-181)
RECURSIVE matchDeep(_, _)
matchDeep(route, topic) ==
    IF Len(route) = 0 THEN Len(topic) = 0
    ELSE IF Len(topic) = 0 THEN route[1] = Hash
    ELSE IF route[1] = Hash THEN TRUE
    ELSE IF route[1] = Plus \/ route[1] = topic[1]
         THEN matchDeep(Tail(route), Tail(topic))
         ELSE FALSE

\* routeIncludesTopic (part_000 lines 184-186)
routeIncludesTopic(route, topic) ==
    LET r == routeSplit(route)
    IN  IF r.panic THEN Panicked
        ELSE Returned(matchDeep(r.value, topicSplit(topic)))

\* match (part_000 lines 159-161): || evaluates routeIncludesTopic only when
\* the strings differ.
match(route, topic) ==
    IF route = topic THEN Returned(TRUE) ELSE routeIncludesTopic(route, topic)

(***************************************************************************)
(* Router (routercontext, part_000)                                        *)
(***************************************************************************)
\* Registrations (handlers over all route patterns) the model lets accumulate.
MaxRegs == 2
\* Middlewares the model lets accumulate.
MaxMW == 2

\* Handlers and middlewares are opaque functions: the model names them.
Handlers == {"h1", "h2"}
NilHandler == "nil"
Middlewares == {"m1", "m2"}
\* A handler that panics when it is invoked.
FaultyHandlers == {"hp"}
\* middleware.Recoverer (part_003 lines 12-23)
Recoverer == "Recoverer"
\* Topic aliases carried by packets; NoAlias is Properties.TopicAlias == nil.
Aliases == {1}
NoAlias == 0

\* The route patterns handlers are registered under and the topics of the
\* packets routed. The router only stores and compares them; match reads
\* their characters.
RouteFilters == {"a/b", "a/#", "#", "$share"}
RouteTopics == {"a/b", "a", "c", ""}
Chars ==
    ("a/b" :> <<"a", "/", "b">>) @@ ("a/#" :> <<"a", "/", "#">>) @@ ("#" :> <<"#">>)
    @@ ("$share" :> Share) @@ ("a" :> <<"a">>) @@ ("c" :> <<"c">>) @@ ("" :> <<>>)
Packets == [topic : RouteTopics, alias : {NoAlias} \cup Aliases]

\* match on the route patterns and topics of the model, tabulated.
MatchTable ==
    [route \in RouteFilters, topic \in RouteTopics |-> match(Chars[route], Chars[topic])]
\* The arguments Use is called with: any list of middlewares.
UseArgs == Strings(Middlewares, MaxMW)

\* r.subscriptions[topic], nil (the empty list) when absent
HandlersOf(subs, route) == IF route \in DOMAIN subs THEN subs[route] ELSE <<>>

RECURSIVE SumLen(_, _)
SumLen(subs, routes) ==
    IF routes = {} THEN 0
    ELSE LET r == CHOOSE x \in routes : TRUE
         IN  Len(subs[r]) + SumLen(subs, routes \ {r})
Registrations(subs) == SumLen(subs, DOMAIN subs)

Op(name, filter, handler, mws, pb) ==
    [op |-> name, filter |-> filter, handler |-> handler, mws |-> mws, pb |-> pb]
NoPacket == [topic |-> "", alias |-> NoAlias]
\* No call on the router is being observed.
NoOp == Op("none", "", NilHandler, <<>>, NoPacket)

\* append that puts the new handler first
addHandlerFirst(list, h) == <<h>> \o list
\* line 66: append(r.subscriptions[topic], h)
addHandler(list, h) == Append(list, h)

\* sync.RWMutex (line 41). The operations that change the registry hold it
\* exclusively from Lock to the deferred Unlock, which they reach in one
\* step; Route holds it for reading. A process that died of a fatal runtime
\* error locks nothing any more.
Alive == outcome # "fatal"
\* a Lock() that does not wait for the holders of the read lock
LockableOverReaders == Alive /\ writer = NoProc
\* r.Lock() (lines 63, 72, 82, 140) gets the lock when nobody holds it
Lockable == Alive /\ readers = {} /\ writer = NoProc
\* r.RLock() (line 92) gets the lock when nobody holds it for writing
\* and nobody waits for it in Lock(): a sync.RWMutex makes new readers wait
\* behind a writer that is waiting
RLockable == Alive /\ writer = NoProc /\ \A p \in Procs : locking[p] = NoOp

\* log.Logger values: log.NOOPLogger{} (line 55), a logger of the caller's,
\* and the nil interface value.
NilLogger == "nil"
Loggers == {"NOOPLogger", "logger", NilLogger}

\* r.debug.Println(...) on a nil r.debug (lines 62, 71, 81, 91, 139): the
\* call of a method of a nil interface value panics with a nil pointer
\* dereference, before the operation has locked or changed anything.
LogFaults(op) ==
    /\ lastOp' = op
    /\ trace' = <<>>
    /\ outcome' = "nil dereference"
    /\ UNCHANGED <<subscriptions, defaultHandler, middlewares, aliases, readers, routing>>

\* RegisterHandler (lines 61-67)
RegisterHandler(topic, h) ==
    /\ lastOp = NoOp
    /\ IF debug = NilLogger
       THEN LogFaults(Op("RegisterHandler", topic, h, <<>>, NoPacket))
       ELSE /\ Lockable
            /\ Registrations(subscriptions) < MaxRegs
            /\ subscriptions' = MapStore(subscriptions, topic,
                                         addHandler(HandlersOf(subscriptions, topic), h))
            /\ lastOp' = Op("RegisterHandler", topic, h, <<>>, NoPacket)
            /\ trace' = <<>>
            /\ outcome' = "none"
            /\ UNCHANGED <<defaultHandler, middlewares, aliases, readers, routing>>
    /\ UNCHANGED stepVars
    /\ UNCHANGED debug
    /\ UNCHANGED locking

\* delete that removes every pattern the given one matches
deleteMatching(subs, topic) ==
    [x \in {y \in DOMAIN subs : ~match(Chars[topic], Chars[y]).value} |-> subs[x]]
\* line 75: delete(r.subscriptions, topic)
deleteRoute(subs, topic) == MapDelete(subs, topic)

\* UnregisterHandler (lines 70-76)
UnregisterHandler(topic) ==
    /\ lastOp = NoOp
    /\ IF debug = NilLogger
       THEN LogFaults(Op("UnregisterHandler", topic, NilHandler, <<>>, NoPacket))
       ELSE /\ Lockable
            /\ subscriptions' = deleteRoute(subscriptions, topic)
            /\ lastOp' = Op("UnregisterHandler", topic, NilHandler, <<>>, NoPacket)
            /\ trace' = <<>>
            /\ outcome' = "none"
            /\ UNCHANGED <<defaultHandler, middlewares, aliases, readers, routing>>
    /\ UNCHANGED stepVars
    /\ UNCHANGED debug
    /\ UNCHANGED locking

\* Use (lines 80-86)
Use(m) ==
    /\ lastOp = NoOp
    /\ IF debug = NilLogger
       THEN LogFaults(Op("Use", "", NilHandler, m, NoPacket))
       ELSE /\ Lockable
            /\ Len(middlewares) + Len(m) <= MaxMW
            /\ middlewares' = middlewares \o m
            /\ lastOp' = Op("Use", "", NilHandler, m, NoPacket)
            /\ trace' = <<>>
            /\ outcome' = "none"
            /\ UNCHANGED <<subscriptions, defaultHandler, aliases, readers, routing>>
    /\ UNCHANGED stepVars
    /\ UNCHANGED debug
    /\ UNCHANGED locking

\* DefaultHandler (lines 138-143)
DefaultHandler(h) ==
    /\ lastOp = NoOp
    /\ IF debug = NilLogger
       THEN LogFaults(Op("DefaultHandler", "", h, <<>>, NoPacket))
       ELSE /\ Lockable
            /\ defaultHandler' = h
            /\ lastOp' = Op("DefaultHandler", "", h, <<>>, NoPacket)
            /\ trace' = <<>>
            /\ outcome' = "none"
            /\ UNCHANGED <<subscriptions, middlewares, aliases, readers, routing>>
    /\ UNCHANGED stepVars
    /\ UNCHANGED debug
    /\ UNCHANGED locking

\* SetDebugLogger (lines 132-134): r.debug = l, whatever l is; it takes no
\* lock and logs nothing
SetDebugLogger(l) ==
    /\ lastOp = NoOp
    /\ Alive
    /\ debug' = l
    /\ lastOp' = Op("SetDebugLogger", "", NilHandler, <<>>, NoPacket)
    /\ trace' = <<>>
    /\ outcome' = "none"
    /\ UNCHANGED <<subscriptions, defaultHandler, middlewares, aliases, readers, routing>>
    /\ UNCHANGED stepVars
    /\ UNCHANGED locking

\* What runs when a function value is called: a handler (registered under
\* route, or the default handler), or a middleware's wrapper around next.
HandlerFn(h, route) == [kind |-> "handler", id |-> h, route |-> route]
DefaultFn(h) == [kind |-> "default", id |-> h, route |-> ""]
Wrapped(mw, next) == [kind |-> "mw", id |-> mw, next |-> next]

\* wrapHandler folding from the first middleware on, which leaves the last
\* registered one outermost
RECURSIVE wrapForward(_, _, _)
wrapForward(mws, i, h) ==
    IF i > Len(mws) THEN h ELSE wrapForward(mws, i + 1, Wrapped(mws[i], h))
wrapHandlerForward(mws, h) == wrapForward(mws, 1, h)

\* lines 151-153: for i := len(r.middlewares) - 1; i >= 0; i-- { h = r.middlewares[i](h) }
RECURSIVE wrapFrom(_, _, _)
wrapFrom(mws, i, h) ==
    IF i < 1 THEN h ELSE wrapFrom(mws, i - 1, Wrapped(mws[i], h))

\* wrapHandler (lines 147-155)
wrapHandler(mws, h) == IF Len(mws) = 0 THEN h ELSE wrapFrom(mws, Len(mws), h)

\* What a call of a function value did: the events it ran, in order, and
\* whether it ended in a panic that it hands on to its caller.
Ran(events, panic) == [events |-> events, panic |-> panic]
Event(kind, fnId, route, topic) ==
    [kind |-> kind, id |-> fnId, route |-> route, topic |-> topic]

\* Calling a function value with the message m. A handler runs, and panics
\* if it is a faulty one. A middleware's wrapper runs its code before, calls
\* next, and runs its code after when next returned (the middlewares of the
\* tests and of middleware.Logger); a panic of next unwinds it. Recoverer's
\* wrapper calls next and its deferred function stops a panic of next
\* (part_003 lines 14-21).
RECURSIVE Invoke(_, _)
Invoke(fn, m) ==
    IF fn.kind = "mw"
    THEN LET inner == Invoke(fn.next, m)
         IN  IF fn.id = Recoverer
             THEN Ran(inner.events \o
                          (IF inner.panic
                           THEN <<Event("recovered", Recoverer, "", m.topic)>> ELSE <<>>),
                      FALSE)
             ELSE IF inner.panic
                  THEN Ran(<<Event("before", fn.id, "", m.topic)>> \o inner.events, TRUE)
                  ELSE Ran(<<Event("before", fn.id, "", m.topic)>> \o inner.events
                               \o <<Event("after", fn.id, "", m.topic)>>,
                           FALSE)
    ELSE Ran(<<Event(fn.kind, fn.id, fn.route, m.topic)>>, fn.id \in FaultyHandlers)

\* the loop going on to the next handler after a panic came out of a call
RECURSIVE CallHandlersResumed(_, _, _, _, _)
CallHandlersResumed(handlers, k, route, mws, m) ==
    IF k > Len(handlers) THEN Ran(<<>>, FALSE)
    ELSE LET call == Invoke(wrapHandler(mws, HandlerFn(handlers[k], route)), m)
             rest == CallHandlersResumed(handlers, k + 1, route, mws, m)
         IN  Ran(call.events \o rest.events, call.panic \/ rest.panic)
\* lines 119-122: every handler of the list, wrapped and called in turn; a
\* panic that comes out of a call ends the loop.
RECURSIVE CallHandlers(_, _, _, _, _)
CallHandlers(handlers, k, route, mws, m) ==
    IF k > Len(handlers) THEN Ran(<<>>, FALSE)
    ELSE LET call == Invoke(wrapHandler(mws, HandlerFn(handlers[k], route)), m)
         IN  IF call.panic THEN call
             ELSE LET rest == CallHandlers(handlers, k + 1, route, mws, m)
                  IN  Ran(call.events \o rest.events, rest.panic)

\* lines 100-106: a packet with an alias and a topic registers the alias
StoreAlias(al, pb) ==
    IF pb.alias # NoAlias /\ pb.topic # ""
    THEN MapStore(al, pb.alias, pb.topic)
    ELSE al

\* lines 99-113: the topic the patterns are matched against
EffectiveTopic(al, pb) ==
    IF pb.alias # NoAlias
    THEN IF pb.alias \in DOMAIN al THEN al[pb.alias] ELSE ""
    ELSE pb.topic

\* lines 115-124: the range over r.subscriptions, in the order the map
\* iteration happens to take; a panic of match or of a handler ends it.
RECURSIVE ScanRoutes(_, _, _, _, _, _)
ScanRoutes(order, k, topic, subs, mws, m) ==
    IF k > Len(order) THEN [events |-> <<>>, called |-> FALSE, panic |-> FALSE]
    ELSE LET r == MatchTable[order[k], topic]
         IN  IF r.panic THEN [events |-> <<>>, called |-> FALSE, panic |-> TRUE]
             ELSE IF r.value
                  THEN LET calls == CallHandlers(subs[order[k]], 1, order[k], mws, m)
                       IN  IF calls.panic
                           THEN [events |-> calls.events, called |-> TRUE, panic |-> TRUE]
                           ELSE LET rest == ScanRoutes(order, k + 1, topic, subs, mws, m)
                                IN  [events |-> calls.events \o rest.events,
                                     called |-> TRUE,
                                     panic |-> rest.panic]
                  ELSE ScanRoutes(order, k + 1, topic, subs, mws, m)

\* lines 126-128 with the test of handlerCalled left out
RunDefaultAlways(called, dflt, mws, m) ==
    IF dflt # NilHandler THEN Invoke(wrapHandler(mws, DefaultFn(dflt)), m)
    ELSE Ran(<<>>, FALSE)
\* lines 126-128 with the default handler called as it was registered,
\* not wrapped
RunDefaultBare(called, dflt, mws, m) ==
    IF ~called /\ dflt # NilHandler THEN Invoke(DefaultFn(dflt), m)
    ELSE Ran(<<>>, FALSE)
\* lines 126-128: if !handlerCalled && r.defaultHandler != nil
RunDefault(called, dflt, mws, m) ==
    IF ~called /\ dflt # NilHandler
    THEN Invoke(wrapHandler(mws, DefaultFn(dflt)), m)
    ELSE Ran(<<>>, FALSE)

\* lines 115-129: the loop, then the default handler if the loop got to its
\* end without calling a handler
Dispatch(order, topic, subs, dflt, mws, m) ==
    LET scan == ScanRoutes(order, 1, topic, subs, mws, m)
    IN  IF scan.panic THEN Ran(scan.events, TRUE)
        ELSE LET last == RunDefault(scan.called, dflt, mws, m)
             IN  Ran(scan.events \o last.events, last.panic)

\* The orders in which a range over a map with these keys can visit them.
Orders(keys) ==
    {o \in [1..Cardinality(keys) -> keys] : \A i, j \in DOMAIN o : i # j => o[i] # o[j]}

\* m := paho.PublishFromPacketPublish(pb) (line 95): the message carries
\* the topic written in the packet
PublishFromPacketPublish(pb) == [topic |-> pb.topic]

\* a Route that would hand on the topic it resolved instead
MessageOfResolved(pb, topic) == [topic |-> topic]

\* the message handed to every handler and to the default handler (lines
\* 120 and 127) is m of line 95; the topic resolved in lines 100-113 is kept
\* in the local variable topic and is never written into m
MessageHanded(pb, topic) == PublishFromPacketPublish(pb)

\* Route (lines 90-129)
Route(pb, order) ==
    /\ lastOp = NoOp
    /\ IF debug = NilLogger
       THEN LogFaults(Op("Route", "", NilHandler, <<>>, pb))
       ELSE /\ RLockable
            /\ LET al == StoreAlias(aliases, pb)
                   topic == EffectiveTopic(al, pb)
                   m == MessageHanded(pb, topic)
                   done == Dispatch(order, topic, subscriptions, defaultHandler,
                                    middlewares, m)
               IN  /\ aliases' = al
                   /\ trace' = done.events
                   /\ outcome' = IF done.panic THEN "panicked" ELSE "returned"
            /\ lastOp' = Op("Route", "", NilHandler, <<>>, pb)
            /\ UNCHANGED <<subscriptions, defaultHandler, middlewares, readers, routing>>
    /\ UNCHANGED stepVars
    /\ UNCHANGED debug
    /\ UNCHANGED locking

\* The call has ended and what was observed of it is dropped; the next call
\* on the router starts from here.
Return ==
    /\ lastOp # NoOp
    /\ Alive
    /\ lastOp' = NoOp
    /\ trace' = <<>>
    /\ outcome' = "none"
    /\ UNCHANGED <<subscriptions, defaultHandler, middlewares, aliases, readers, routing>>
    /\ UNCHANGED stepVars
    /\ UNCHANGED debug
    /\ UNCHANGED locking

(***************************************************************************)
(* Route step by step, for callers that run it concurrently: each holds    *)
(* the RWMutex for reading only, so the accesses to r.aliases of lines     *)
(* 100-113 of one caller are not ordered with those of another. Go's       *)
(* runtime may end the process with "fatal error: concurrent map writes"   *)
(* (or "concurrent map read and map write") when an access to a map meets  *)
(* a write of another goroutine; otherwise the accesses take effect in     *)
(* some order.                                                             *)
(***************************************************************************)
\* A caller outside Route.
NotRouting == [pc |-> "idle", pb |-> NoPacket, topic |-> ""]
\* The caller is between r.RLock() and the end of the alias resolution.
InAliasSection(p) == routing[p].pc \in {"route_store", "route_load"}
\* The caller is about to execute r.aliases[alias] = pb.Topic (line 105).
WillStore(p) == routing[p].pc = "route_store" /\ routing[p].pb.topic # ""
StoreOutcomes(p) ==
    IF WillStore(p) /\ \E q \in Procs \ {p} : InAliasSection(q)
    THEN {"done", "fatal"} ELSE {"done"}
LoadOutcomes(p) ==
    IF \E q \in Procs \ {p} : WillStore(q) THEN {"done", "fatal"} ELSE {"done"}

\* lines 92-99, 111-113: r.RLock(); a packet without an alias is matched
\* under its own topic
RouteRLock(p, pb) ==
    /\ RLockable
    /\ debug # NilLogger
    /\ routing[p].pc = "idle"
    /\ readers' = readers \cup {p}
    /\ routing' = [routing EXCEPT ![p] =
                      IF pb.alias # NoAlias
                      THEN [pc |-> "route_store", pb |-> pb, topic |-> ""]
                      ELSE [pc |-> "route_scan", pb |-> pb, topic |-> pb.topic]]
    /\ UNCHANGED <<subscriptions, defaultHandler, middlewares, aliases,
                   lastOp, trace, outcome>>
    /\ UNCHANGED stepVars
    /\ UNCHANGED debug
    /\ UNCHANGED locking

\* lines 102-106: if pb.Topic != "" { r.aliases[alias] = pb.Topic }
RouteAliasStore(p) ==
    /\ Alive
    /\ routing[p].pc = "route_store"
    /\ \E result \in StoreOutcomes(p) :
          IF result = "fatal"
          THEN /\ outcome' = "fatal"
               /\ UNCHANGED <<aliases, routing>>
          ELSE /\ aliases' = StoreAlias(aliases, routing[p].pb)
               /\ routing' = [routing EXCEPT ![p].pc = "route_load"]
               /\ UNCHANGED outcome
    /\ UNCHANGED <<subscriptions, defaultHandler, middlewares, readers, lastOp, trace>>
    /\ UNCHANGED stepVars
    /\ UNCHANGED debug
    /\ UNCHANGED locking

\* lines 107-110: if t, ok := r.aliases[alias]; ok { topic = t }
RouteAliasLoad(p) ==
    /\ Alive
    /\ routing[p].pc = "route_load"
    /\ \E result \in LoadOutcomes(p) :
          IF result = "fatal"
          THEN /\ outcome' = "fatal"
               /\ UNCHANGED routing
          ELSE /\ routing' = [routing EXCEPT
                                 ![p].pc = "route_scan",
                                 ![p].topic = EffectiveTopic(aliases, routing[p].pb)]
               /\ UNCHANGED outcome
    /\ UNCHANGED <<subscriptions, defaultHandler, middlewares, aliases, readers,
                   lastOp, trace>>
    /\ UNCHANGED stepVars
    /\ UNCHANGED debug
    /\ UNCHANGED locking

\* lines 115-129 and the deferred r.RUnlock() of line 93
RouteScan(p, order) ==
    /\ Alive
    /\ routing[p].pc = "route_scan"
    /\ LET m == MessageHanded(routing[p].pb, routing[p].topic)
           done == Dispatch(order, routing[p].topic, subscriptions, defaultHandler,
                            middlewares, m)
       IN  /\ trace' = done.events
           /\ outcome' = IF done.panic THEN "panicked" ELSE "returned"
    /\ lastOp' = Op("Route", "", NilHandler, <<>>, routing[p].pb)
    /\ readers' = readers \ {p}
    /\ routing' = [routing EXCEPT ![p] = NotRouting]
    /\ UNCHANGED <<subscriptions, defaultHandler, middlewares, aliases>>
    /\ UNCHANGED stepVars
    /\ UNCHANGED debug
    /\ UNCHANGED locking

(***************************************************************************)
(* RegisterHandler step by step, for callers that run it concurrently.     *)
(* Line 66 reads the list of the pattern, appends to it and stores the     *)
(* result; the callers are ordered by the RWMutex only.                    *)
(***************************************************************************)
\* A caller outside RegisterHandler.
NotRegistering == [pc |-> "idle", topic |-> "", handler |-> NilHandler, list |-> <<>>]
\* The callers inside RegisterHandler.
Registering == {p \in Procs : registering[p].pc # "idle"}

\* lines 61-62: the call, up to r.Lock()
RegisterCall(p, topic, h) ==
    /\ Alive
    /\ debug # NilLogger
    /\ registering[p].pc = "idle"
    /\ Registrations(subscriptions) + Cardinality(Registering) < MaxRegs
    /\ registering' = [registering EXCEPT ![p] =
                          [pc |-> "reg_lock", topic |-> topic, handler |-> h, list |-> <<>>]]
    /\ UNCHANGED <<subscriptions, defaultHandler, middlewares, aliases, readers, routing,
                   lastOp, trace, outcome, writer, registered, dispatch>>
    /\ UNCHANGED debug
    /\ UNCHANGED locking

\* line 63: r.Lock()
RegisterLock(p) ==
    /\ registering[p].pc = "reg_lock"
    /\ Lockable
    /\ writer' = p
    /\ registering' = [registering EXCEPT ![p].pc = "reg_load"]
    /\ UNCHANGED <<subscriptions, defaultHandler, middlewares, aliases, readers, routing,
                   lastOp, trace, outcome, registered, dispatch>>
    /\ UNCHANGED debug
    /\ UNCHANGED locking

\* line 66, right-hand side: r.subscriptions[topic]
RegisterLoad(p) ==
    /\ registering[p].pc = "reg_load"
    /\ registering' = [registering EXCEPT
                          ![p].pc = "reg_store",
                          ![p].list = HandlersOf(subscriptions, registering[p].topic)]
    /\ UNCHANGED <<subscriptions, defaultHandler, middlewares, aliases, readers, routing,
                   lastOp, trace, outcome, writer, registered, dispatch>>
    /\ UNCHANGED debug
    /\ UNCHANGED locking

\* line 66: r.subscriptions[topic] = append(..., h), the deferred r.Unlock()
\* of line 64 and the return
RegisterStore(p) ==
    /\ registering[p].pc = "reg_store"
    /\ subscriptions' = MapStore(subscriptions, registering[p].topic,
                                 addHandler(registering[p].list, registering[p].handler))
    /\ writer' = NoProc
    /\ registered' = MapStore(registered, registering[p].topic,
                              Append(HandlersOf(registered, registering[p].topic),
                                     registering[p].handler))
    /\ registering' = [registering EXCEPT ![p] = NotRegistering]
    /\ lastOp' = Op("RegisterHandler", registering[p].topic, registering[p].handler,
                    <<>>, NoPacket)
    /\ trace' = <<>>
    /\ outcome' = "none"
    /\ UNCHANGED <<defaultHandler, middlewares, aliases, readers, routing, dispatch>>
    /\ UNCHANGED debug
    /\ UNCHANGED locking

(***************************************************************************)
(* The loop of Route step by step: one step to find the next handler and   *)
(* call it, one for the handler to finish, then the deferred calls. The    *)
(* two context routers of the repository run the same loop;                *)
(* StandardContextRouter (paho/router.go lines 299-300) makes the context  *)
(* with context.WithCancel and defers its cancel, routercontext.Router     *)
(* (part_000 line 97) hands on context.Background().                       *)
(***************************************************************************)
\* Contexts are told apart by what made them and for which caller.
NoContextId == <<"none", NoProc>>
NoContext == [id |-> NoContextId, cancel |-> FALSE, state |-> "none"]
\* context.Background(): one for the whole program, never cancelled
Background == [id |-> <<"Background", NoProc>>, cancel |-> FALSE, state |-> "live"]
\* context.WithCancel(context.Background()) made by the Route call of p
WithCancel(p) == [id |-> <<"WithCancel", p>>, cancel |-> TRUE, state |-> "live"]
NoFn == [kind |-> "none"]

\* A caller outside the loop of Route.
NotDispatching ==
    [pc |-> "idle", order |-> <<>>, k |-> 0, j |-> 0, called |-> FALSE,
     ctx |-> NoContext, fn |-> NoFn, task |-> "none", handed |-> NoContextId,
     panicking |-> FALSE]

\* an r.RUnlock() at the end of Route, which a panic does not get to
RUnlockAtEnd(rs, p, panicking) == IF panicking THEN rs ELSE rs \ {p}
\* line 93: defer r.RUnlock(): runs when Route returns and when it unwinds
deferredRUnlock(rs, p, panicking) == rs \ {p}

\* a cancel that is not deferred and never called
deferredCancelLost(ctx) == ctx
\* router.go line 300: defer cancel(), when Route made the cancellation
deferredCancel(ctx) ==
    IF ctx.cancel THEN [ctx EXCEPT !.state = "cancelled"] ELSE ctx

\* The handler or default handler a wrapped function ends in.
RECURSIVE Innermost(_)
Innermost(fn) == IF fn.kind = "mw" THEN Innermost(fn.next) ELSE fn

\* a call made with the go statement: the handler runs on a task of its
\* own and the loop goes on
callSpawned(d, fn) ==
    [d EXCEPT !.pc = IF Innermost(fn).kind = "default" THEN "route_defer" ELSE "route_next",
              !.called = TRUE, !.fn = fn, !.task = "spawned", !.handed = d.ctx.id]
\* lines 120, 127: r.wrapHandler(handler)(ctx, m), a call on the task that
\* runs Route, which goes on when the call has returned
call(d, fn) ==
    [d EXCEPT !.pc = "route_handler", !.fn = fn, !.task = "caller", !.handed = d.ctx.id]

\* lines 116-119: where the loop calls a handler next, from the place
\* (k, j) on: the handler j of the pattern k of the iteration, the end of
\* the iteration, or a panic of match
RECURSIVE NextHandler(_, _, _, _, _)
NextHandler(order, k, j, topic, subs) ==
    IF k > Len(order) THEN [kind |-> "end", k |-> k, j |-> 1]
    ELSE IF j > 1
         THEN IF j <= Len(HandlersOf(subs, order[k]))
              THEN [kind |-> "handler", k |-> k, j |-> j]
              ELSE NextHandler(order, k + 1, 1, topic, subs)
         ELSE LET r == MatchTable[order[k], topic]
              IN  IF r.panic THEN [kind |-> "panic", k |-> k, j |-> j]
                  ELSE IF r.value /\ Len(HandlersOf(subs, order[k])) > 0
                       THEN [kind |-> "handler", k |-> k, j |-> 1]
                       ELSE NextHandler(order, k + 1, 1, topic, subs)

\* lines 95-97, 115-116 (router.go 297-300, 318-319): the context is made
\* and the range over r.subscriptions starts
DispatchBegin(p, order, withCancel) ==
    /\ Alive
    /\ routing[p].pc = "route_scan"
    /\ routing' = [routing EXCEPT ![p].pc = "route_run"]
    /\ dispatch' = [dispatch EXCEPT ![p] =
                       [NotDispatching EXCEPT
                           !.pc = "route_next", !.order = order, !.k = 1, !.j = 1,
                           !.ctx = IF withCancel THEN WithCancel(p) ELSE Background]]
    /\ UNCHANGED <<subscriptions, defaultHandler, middlewares, aliases, readers,
                   lastOp, trace, outcome, writer, registering, registered>>
    /\ UNCHANGED debug
    /\ UNCHANGED locking

\* a loop that stays at the pattern and the handler it started from
rangeStays(d, nxt) == d
\* lines 116 and 119: the two range statements move on, past the handler
\* that is called now; no pattern and no handler comes twice
rangeNext(d, nxt) == [d EXCEPT !.k = nxt.k, !.j = nxt.j + 1]

\* lines 116-128: the loop goes on to its next call, of a handler or, at
\* its end, of the default handler; a panic of match unwinds Route
DispatchStep(p) ==
    /\ Alive
    /\ dispatch[p].pc = "route_next"
    /\ LET d == dispatch[p]
           nxt == NextHandler(d.order, d.k, d.j, routing[p].topic, subscriptions)
           at == rangeNext(d, nxt)
       IN  dispatch' = [dispatch EXCEPT ![p] =
               IF nxt.kind = "panic"
               THEN [d EXCEPT !.pc = "route_defer", !.panicking = TRUE]
               ELSE IF nxt.kind = "handler"
               THEN call(at, wrapHandler(middlewares,
                             HandlerFn(subscriptions[d.order[nxt.k]][nxt.j],
                                       d.order[nxt.k])))
               ELSE IF ~d.called /\ defaultHandler # NilHandler
               THEN call(at, wrapHandler(middlewares, DefaultFn(defaultHandler)))
               ELSE [d EXCEPT !.pc = "route_defer"]]
    /\ UNCHANGED <<subscriptions, defaultHandler, middlewares, aliases, readers, routing,
                   lastOp, trace, outcome, writer, registering, registered>>
    /\ UNCHANGED debug
    /\ UNCHANGED locking

\* The function that was called comes to its end: it returns (line 121:
\* handlerCalled = true) or it panics, which unwinds Route.
HandlerReturn(p) ==
    /\ Alive
    /\ dispatch[p].task # "none"
    /\ locking[p] = NoOp
    /\ LET d == dispatch[p]
           done == Invoke(d.fn, MessageHanded(routing[p].pb, routing[p].topic))
           ended == [d EXCEPT !.fn = NoFn, !.task = "none", !.handed = NoContextId]
       IN  dispatch' = [dispatch EXCEPT ![p] =
               IF d.pc # "route_handler" THEN ended
               ELSE IF done.panic
               THEN [ended EXCEPT !.pc = "route_defer", !.panicking = TRUE]
               ELSE IF Innermost(d.fn).kind = "default"
               THEN [ended EXCEPT !.pc = "route_defer"]
               ELSE [ended EXCEPT !.pc = "route_next", !.called = TRUE]]
    /\ UNCHANGED <<subscriptions, defaultHandler, middlewares, aliases, readers, routing,
                   lastOp, trace, outcome, writer, registering, registered>>
    /\ UNCHANGED debug
    /\ UNCHANGED locking

\* router.go line 300: the deferred cancel() runs, also when Route unwinds
DispatchDefer(p) ==
    /\ Alive
    /\ dispatch[p].pc = "route_defer"
    /\ dispatch' = [dispatch EXCEPT ![p] =
                       [NotDispatching EXCEPT
                           !.pc = "route_unlock",
                           !.ctx = deferredCancel(dispatch[p].ctx),
                           !.fn = dispatch[p].fn,
                           !.task = dispatch[p].task,
                           !.handed = dispatch[p].handed,
                           !.panicking = dispatch[p].panicking]]
    /\ UNCHANGED <<subscriptions, defaultHandler, middlewares, aliases, readers, routing,
                   lastOp, trace, outcome, writer, registering, registered>>
    /\ UNCHANGED debug
    /\ UNCHANGED locking

\* line 93: the deferred r.RUnlock() runs and Route returns, or hands the
\* panic on to its caller
DispatchReturn(p) ==
    /\ Alive
    /\ dispatch[p].pc = "route_unlock"
    /\ readers' = deferredRUnlock(readers, p, dispatch[p].panicking)
    /\ routing' = [routing EXCEPT ![p] = NotRouting]
    /\ dispatch' = [dispatch EXCEPT ![p] = NotDispatching]
    /\ UNCHANGED <<subscriptions, defaultHandler, middlewares, aliases,
                   lastOp, trace, outcome, writer, registering, registered>>
    /\ UNCHANGED debug
    /\ UNCHANGED locking

(***************************************************************************)
(* Registry operations whose wait in r.Lock() is followed: called by a     *)
(* caller outside Route, or by a handler from inside a dispatch.           *)
(***************************************************************************)
\* Handlers that call an operation of the router they were invoked by.
ReentrantHandlers == {"hr"}
\* The caller is outside Route, or a handler that calls the router is
\* running in its dispatch.
MayCallRouter(p) ==
    IF routing[p].pc = "idle" THEN TRUE
    ELSE dispatch[p].task = "caller"
             /\ Innermost(dispatch[p].fn).id \in ReentrantHandlers
\* The registrations and middlewares that the operations waiting for the
\* lock will add.
PendingOps(name) == Cardinality({p \in Procs : locking[p].op = name})

\* lines 62-63, 71-72, 81-82, 139-140: r.debug.Println(...); r.Lock() is
\* called, and waits when the lock is held
LockCall(p, op) ==
    /\ Alive
    /\ debug # NilLogger
    /\ locking[p] = NoOp
    /\ MayCallRouter(p)
    /\ op.op = "RegisterHandler" =>
           Registrations(subscriptions) + PendingOps("RegisterHandler") < MaxRegs
    /\ op.op = "Use" => Len(middlewares) + PendingOps("Use") + Len(op.mws) <= MaxMW
    /\ locking' = [locking EXCEPT ![p] = op]
    /\ UNCHANGED <<subscriptions, defaultHandler, middlewares, aliases, readers, routing,
                   lastOp, trace, outcome, stepVars, debug>>

\* a lock that its holder for reading can take for writing as well
LockFreeOfOthers(p) == readers \ {p} = {} /\ writer = NoProc
\* sync.RWMutex: Lock() returns when nobody holds the lock, for reading or
\* for writing
LockFree(p) == readers = {} /\ writer = NoProc

\* lines 63-66, 72-75, 82-85, 140-142: Lock() returns, the operation
\* changes the registry, the deferred Unlock() runs and the call returns
LockGranted(p) ==
    /\ Alive
    /\ locking[p] # NoOp
    /\ LockFree(p)
    /\ LET op == locking[p]
       IN  /\ subscriptions' =
                  IF op.op = "RegisterHandler"
                  THEN MapStore(subscriptions, op.filter,
                                addHandler(HandlersOf(subscriptions, op.filter), op.handler))
                  ELSE IF op.op = "UnregisterHandler"
                  THEN deleteRoute(subscriptions, op.filter)
                  ELSE subscriptions
           /\ middlewares' = IF op.op = "Use" THEN middlewares \o op.mws ELSE middlewares
           /\ defaultHandler' =
                  IF op.op = "DefaultHandler" THEN op.handler ELSE defaultHandler
    /\ locking' = [locking EXCEPT ![p] = NoOp]
    /\ UNCHANGED <<aliases, readers, routing, lastOp, trace, outcome, stepVars, debug>>

\* NewRouter (lines 50-57)
InitRouter ==
    /\ readers = {}
    /\ routing = [p \in Procs |-> NotRouting]
    /\ writer = NoProc
    /\ registering = [p \in Procs |-> NotRegistering]
    /\ registered = <<>>
    /\ dispatch = [p \in Procs |-> NotDispatching]
    /\ debug = "NOOPLogger"
    /\ locking = [p \in Procs |-> NoOp]
    /\ subscriptions = <<>>
    /\ defaultHandler = NilHandler
    /\ middlewares = <<>>
    /\ aliases = <<>>
    /\ lastOp = NoOp
    /\ trace = <<>>
    /\ outcome = "none"

(***************************************************************************)
(* The matcher as a state machine: one call of match on inputs drawn from  *)
(* bounded sets of strings.                                                *)
(***************************************************************************)
\* The longest string (after the "$share" prefix, when there is one).
MaxLen == 3

FilterChars == {"a", "b", "/", "+", "#"}
TopicChars == {"a", "b", "/"}
\* Filters: every short string, plain and behind "$share".
MatchFilters ==
    Strings(FilterChars, MaxLen) \cup {Share \o x : x \in Strings(FilterChars, MaxLen)}
\* Topics: every short string without wildcards, plain and behind "$share".
MatchTopics ==
    Strings(TopicChars, MaxLen) \cup {Share \o x : x \in Strings(TopicChars, MaxLen)}

InitMatchIdle ==
    /\ mRoute = <<>>
    /\ mTopic = <<>>
    /\ mResult = <<>>

InitMatch ==
    /\ mRoute \in MatchFilters
    /\ mTopic \in MatchTopics
    /\ mResult = <<>>

\* The call match(route, topic).
Match ==
    /\ mResult = <<>>
    /\ mResult' = <<match(mRoute, mTopic)>>
    /\ UNCHANGED <<mRoute, mTopic>>

\* Group ids of shared subscriptions.
GroupIds == {<<>>, <<"g">>, <<"g", "a">>}
\* "$share/" + g + "/" + route
Shared(g, route) == Share \o <<Slash>> \o g \o <<Slash>> \o route

\* The call match("$share/" + g + "/" + route, topic) after match(route,
\* topic); the results are kept side by side, followed by g.
MatchShared(g) ==
    /\ Len(mResult) = 1
    /\ mResult' = <<mResult[1], match(Shared(g, mRoute), mTopic), g>>
    /\ UNCHANGED <<mRoute, mTopic>>

\* What a caller that calls the service's operations one after the other
\* knows of an identifier: never issued to it, held with the waiter it
\* passed, given back by Free, or dropped by Clear.
Entry(status, w) == [status |-> status, waiter |-> w]
\* Request returns to the caller: it holds the identifier returned.
LedgerIssued(p) ==
    IF rerr[p] THEN ledger
    ELSE [ledger EXCEPT ![rid[p]] = Entry("held", waiter[p])]
\* Free(i) returns: an identifier the caller held is given back.
LedgerFreed(p) ==
    IF ledger[id[p]].status = "held"
    THEN [ledger EXCEPT ![id[p]] = Entry("freed", NilWaiter)]
    ELSE ledger
\* The identifier the caller's most recent successful Request returned (0
\* on a fresh service), and whether a Request has failed since.
NoneIssued == [last |-> 0, failed |-> FALSE]
\* Request returns to the caller.
Issued(p) ==
    IF rerr[p] THEN [issued EXCEPT !.failed = TRUE]
    ELSE [last |-> rid[p], failed |-> FALSE]
\* Clear returns: every identifier the caller held is dropped.
LedgerCleared ==
    [i \in IDs |-> IF ledger[i].status = "held"
                   THEN Entry("cleared", NilWaiter) ELSE ledger[i]]

InitMIDs ==
    /\ index = <<>>
    /\ lastIdUsed = 0
    /\ mutex = NoProc
    /\ pc = [p \in Procs |-> "idle"]
    /\ waiter = [p \in Procs |-> NilWaiter]
    /\ id = [p \in Procs |-> 0]
    /\ rid = [p \in Procs |-> 0]
    /\ rerr = [p \in Procs |-> FALSE]
    /\ got = [p \in Procs |-> NilWaiter]
    /\ cached = [p \in Procs |-> <<>>]
    /\ outstanding = [i \in IDs |-> 0]
    /\ ledger = [i \in IDs |-> Entry("never", NilWaiter)]
    /\ issued = NoneIssued
    /\ abandoned = {}
    /\ aborted = {}

Init == InitMIDs /\ InitMatchIdle /\ InitRouter

\* One caller issuing Request, Get, Free and Clear one after the other.
NextMIDs ==
    /\ \/ (\E c \in Waiters : RequestCall(1, c)) /\ UNCHANGED obsVars
       \/ RequestLock(1) /\ UNCHANGED obsVars
       \/ RequestProbe(1) /\ UNCHANGED obsVars
       \/ RequestStore(1) /\ UNCHANGED obsVars
       \/ RequestNext(1) /\ UNCHANGED obsVars
       \/ RequestReturn(1) /\ ledger' = LedgerIssued(1) /\ issued' = Issued(1) /\ UNCHANGED abandoned
       \/ GetCall(1) /\ UNCHANGED obsVars
       \/ (\E i \in IDs : GetLock(1, i)) /\ UNCHANGED obsVars
       \/ GetReturn(1) /\ UNCHANGED obsVars
       \/ FreeCall(1) /\ UNCHANGED obsVars
       \/ (\E i \in IDs : FreeLock(1, i)) /\ UNCHANGED obsVars
       \/ FreeDelete(1) /\ ledger' = LedgerFreed(1) /\ UNCHANGED <<issued, abandoned>>
       \/ Clear(1) /\ ledger' = LedgerCleared /\ UNCHANGED <<issued, abandoned>>
    /\ UNCHANGED <<matchVars, routerVars, aborted>>

SpecMIDs == Init /\ [][NextMIDs]_vars

\* The owner of a CPContext gives up waiting: its Context is cancelled or
\* times out, or it stops receiving from Return (lines 30-37). The service
\* holds the *CPContext in its table and reads neither field, so nothing
\* of the service runs.
AbandonReleases(i) ==
    /\ ledger[i].status = "held"
    /\ i \notin abandoned
    /\ abandoned' = abandoned \cup {i}
    /\ index' = MapDelete(index, i)
    /\ outstanding' = [outstanding EXCEPT ![i] = 0]
    /\ UNCHANGED <<lastIdUsed, mutex, pc, waiter, id, rid, rerr, got, cached>>
    /\ UNCHANGED <<ledger, issued>>
Abandon(i) ==
    /\ ledger[i].status = "held"
    /\ i \notin abandoned
    /\ abandoned' = abandoned \cup {i}
    /\ UNCHANGED midVars
    /\ UNCHANGED <<ledger, issued>>

\* One caller issuing Request, Get, Free and Clear one after the other,
\* while waiters give up waiting for identifiers that are held.
NextAbandon ==
    /\ \/ (\E c \in Waiters : RequestCall(1, c)) /\ UNCHANGED obsVars
       \/ RequestLock(1) /\ UNCHANGED obsVars
       \/ RequestProbe(1) /\ UNCHANGED obsVars
       \/ RequestStore(1) /\ UNCHANGED obsVars
       \/ RequestNext(1) /\ UNCHANGED obsVars
       \/ RequestReturn(1) /\ ledger' = LedgerIssued(1) /\ issued' = Issued(1)
              /\ UNCHANGED abandoned
       \/ GetCall(1) /\ UNCHANGED obsVars
       \/ (\E i \in IDs : GetLock(1, i)) /\ UNCHANGED obsVars
       \/ GetReturn(1) /\ UNCHANGED obsVars
       \/ FreeCall(1) /\ UNCHANGED obsVars
       \/ (\E i \in IDs : FreeLock(1, i)) /\ UNCHANGED obsVars
       \/ FreeDelete(1) /\ ledger' = LedgerFreed(1) /\ abandoned' = abandoned \ {id[1]}
              /\ UNCHANGED issued
       \/ Clear(1) /\ ledger' = LedgerCleared /\ abandoned' = {} /\ UNCHANGED issued
       \/ \E i \in IDs : Abandon(i)
    /\ UNCHANGED <<matchVars, routerVars, aborted>>

SpecAbandon == Init /\ [][NextAbandon]_vars

\* NProcs callers issuing Request, Get and Free concurrently; each passes
\* its own waiter.
NextConcurrent ==
    /\ \E p \in Procs :
          \/ RequestCall(p, p)
          \/ RequestLock(p)
          \/ RequestProbe(p)
          \/ RequestStore(p)
          \/ RequestNext(p)
          \/ RequestReturn(p)
          \/ GetCall(p)
          \/ \E i \in IDs : GetLock(p, i)
          \/ GetReturn(p)
          \/ FreeCall(p)
          \/ \E i \in IDs : FreeLock(p, i)
          \/ FreeDelete(p)
    /\ UNCHANGED <<matchVars, routerVars, obsVars>>

SpecConcurrent == Init /\ [][NextConcurrent]_vars

\* NProcs callers issuing Request, Get, Free and Clear concurrently.
NextRace ==
    /\ \E p \in Procs :
          \/ RequestCall(p, p)
          \/ RequestLock(p)
          \/ RequestProbe(p)
          \/ RequestStore(p)
          \/ RequestNext(p)
          \/ RequestReturn(p)
          \/ GetCall(p)
          \/ \E i \in IDs : GetLock(p, i)
          \/ GetReturn(p)
          \/ FreeCall(p)
          \/ \E i \in IDs : FreeLock(p, i)
          \/ FreeDelete(p)
          \/ Clear(p)
    /\ UNCHANGED <<matchVars, routerVars, obsVars>>

SpecRace == Init /\ [][NextRace]_vars

\* One call of match on each pair of a filter and a topic.
NextMatch ==
    /\ \/ Match
       \/ \E g \in GroupIds : MatchShared(g)
    /\ UNCHANGED <<midVars, routerVars, obsVars>>

\* match is called on an untouched router and identifier table.
InitMatchCall == InitMIDs /\ InitRouter /\ InitMatch

SpecMatch == InitMatchCall /\ [][NextMatch]_vars

\* One caller calling the router's operations one after the other.
NextRouter ==
    /\ \/ \E topic \in RouteFilters, h \in Handlers : RegisterHandler(topic, h)
       \/ \E topic \in RouteFilters : UnregisterHandler(topic)
       \/ \E m \in UseArgs : Use(m)
       \/ \E h \in Handlers \cup {NilHandler} : DefaultHandler(h)
       \/ \E pb \in Packets, order \in Orders(DOMAIN subscriptions) : Route(pb, order)
       \/ Return
    /\ UNCHANGED <<midVars, matchVars, obsVars>>

SpecRouter == Init /\ [][NextRouter]_vars

\* NProcs callers running Route concurrently while handlers are registered.
NextRouteRace ==
    /\ \/ \E topic \in RouteFilters, h \in Handlers : RegisterHandler(topic, h)
       \/ \E p \in Procs, pb \in Packets : RouteRLock(p, pb)
       \/ \E p \in Procs : RouteAliasStore(p)
       \/ \E p \in Procs : RouteAliasLoad(p)
       \/ \E p \in Procs, order \in Orders(DOMAIN subscriptions) : RouteScan(p, order)
       \/ Return
    /\ UNCHANGED <<midVars, matchVars, obsVars>>

SpecRouteRace == Init /\ [][NextRouteRace]_vars

\* NProcs callers registering handlers concurrently; the messages routed
\* carry no alias.
NextRegister ==
    /\ \/ \E p \in Procs, topic \in RouteFilters, h \in Handlers : RegisterCall(p, topic, h)
       \/ \E p \in Procs : RegisterLock(p)
       \/ \E p \in Procs : RegisterLoad(p)
       \/ \E p \in Procs : RegisterStore(p)
       \/ \E pb \in Packets, order \in Orders(DOMAIN subscriptions) :
              pb.alias = NoAlias /\ Route(pb, order)
       \/ Return
    /\ UNCHANGED <<midVars, matchVars, obsVars>>

SpecRegister == Init /\ [][NextRegister]_vars

\* The pattern, handlers, middleware and message of the callers that run
\* Route step by step.
DispatchFilters == {"a/b"}
DispatchHandlers == {"h1", "hp"}
DispatchPackets == {[topic |-> "a/b", alias |-> NoAlias]}

\* NProcs callers running Route concurrently, on a router of either kind,
\* while the registry is changed. A call that changes the registry has
\* returned before the next call starts.
NextDispatch ==
    /\ \/ \E topic \in DispatchFilters, h \in DispatchHandlers : RegisterHandler(topic, h)
       \/ \E topic \in DispatchFilters : UnregisterHandler(topic)
       \/ Use(<<"m1">>)
       \/ \E h \in {"h1", NilHandler} : DefaultHandler(h)
       \/ Return
       \/ \E p \in Procs, pb \in DispatchPackets : lastOp = NoOp /\ RouteRLock(p, pb)
       \/ \E p \in Procs, order \in Orders(DOMAIN subscriptions), withCancel \in BOOLEAN :
              DispatchBegin(p, order, withCancel)
       \/ \E p \in Procs : DispatchStep(p)
       \/ \E p \in Procs : HandlerReturn(p)
       \/ \E p \in Procs : DispatchDefer(p)
       \/ \E p \in Procs : DispatchReturn(p)
    /\ UNCHANGED <<midVars, matchVars, obsVars>>

SpecDispatch == Init /\ [][NextDispatch]_vars

\* How the Route call that is returning ends for its caller.
Ended(p) == IF dispatch[p].panicking THEN aborted \cup {p} ELSE aborted \ {p}

\* NProcs callers running Route, with handlers that panic, and changing the
\* registry in between; what each Route call ended in is kept.
NextAbort ==
    /\ \/ RegisterHandler("a/b", "hp") /\ UNCHANGED aborted
       \/ UnregisterHandler("a/b") /\ UNCHANGED aborted
       \/ Use(<<"m1">>) /\ UNCHANGED aborted
       \/ (\E h \in {"h1", NilHandler} : DefaultHandler(h)) /\ UNCHANGED aborted
       \/ Return /\ UNCHANGED aborted
       \/ (\E p \in Procs, pb \in DispatchPackets : lastOp = NoOp /\ RouteRLock(p, pb))
              /\ UNCHANGED aborted
       \/ (\E p \in Procs, order \in Orders(DOMAIN subscriptions), withCancel \in BOOLEAN :
               DispatchBegin(p, order, withCancel)) /\ UNCHANGED aborted
       \/ (\E p \in Procs : DispatchStep(p)) /\ UNCHANGED aborted
       \/ (\E p \in Procs : HandlerReturn(p)) /\ UNCHANGED aborted
       \/ (\E p \in Procs : DispatchDefer(p)) /\ UNCHANGED aborted
       \/ \E p \in Procs : DispatchReturn(p) /\ aborted' = Ended(p)
    /\ UNCHANGED <<midVars, matchVars, ledger, issued, abandoned>>

SpecAbort == Init /\ [][NextAbort]_vars

\* The operations called on the router while Route calls are followed step
\* by step, and the message routed.
ReentrantOps ==
    {Op("RegisterHandler", "a/b", h, <<>>, NoPacket) : h \in {"h1", "hr"}}
        \cup {Op("UnregisterHandler", "a/b", NilHandler, <<>>, NoPacket),
              Op("Use", "", NilHandler, <<"m1">>, NoPacket),
              Op("DefaultHandler", "", "hr", <<>>, NoPacket)}

\* NProcs callers that call the registry operations and Route, with
\* handlers that call the registry operations of the router themselves.
NextReentrant ==
    /\ \/ \E p \in Procs, op \in ReentrantOps : LockCall(p, op)
       \/ \E p \in Procs : LockGranted(p)
       \/ \E p \in Procs, pb \in DispatchPackets : RouteRLock(p, pb)
       \/ \E p \in Procs, order \in Orders(DOMAIN subscriptions) :
              DispatchBegin(p, order, FALSE)
       \/ \E p \in Procs : DispatchStep(p)
       \/ \E p \in Procs : HandlerReturn(p)
       \/ \E p \in Procs : DispatchDefer(p)
       \/ \E p \in Procs : DispatchReturn(p)
    /\ UNCHANGED <<midVars, matchVars, obsVars>>

SpecReentrant == Init /\ [][NextReentrant]_vars

\* The patterns, handlers, middlewares and messages of the calls in which a
\* handler panics.
FaultFilters == {"a/b", "a/#", "$share"}
FaultHandlers == {"h1"} \cup FaultyHandlers
FaultUseArgs == Strings({"m1", Recoverer}, MaxMW)
FaultPackets == [topic : {"a/b", "c"}, alias : {NoAlias}]

\* One caller calling the router's operations one after the other, with
\* handlers that panic and with the Recoverer middleware.
NextFault ==
    /\ \/ \E topic \in FaultFilters, h \in FaultHandlers : RegisterHandler(topic, h)
       \/ \E m \in FaultUseArgs : Use(m)
       \/ \E h \in FaultHandlers \cup {NilHandler} : DefaultHandler(h)
       \/ \E pb \in FaultPackets, order \in Orders(DOMAIN subscriptions) : Route(pb, order)
       \/ Return
    /\ UNCHANGED <<midVars, matchVars, obsVars>>

SpecFault == Init /\ [][NextFault]_vars

\* The registry operations called while Route calls are under way, with
\* handlers and middlewares that return.
WaitingOps ==
    {Op("RegisterHandler", f, "h1", <<>>, NoPacket) : f \in {"a/b", "$share"}}
        \cup {Op("UnregisterHandler", "a/b", NilHandler, <<>>, NoPacket),
              Op("Use", "", NilHandler, <<"m1">>, NoPacket),
              Op("DefaultHandler", "", "h1", <<>>, NoPacket)}

\* What the goroutine of a caller inside Route does next: the scan, the
\* return of the function it called, the deferred calls, the return.
RouteRuns(p) ==
    /\ \/ \E order \in Orders(DOMAIN subscriptions) : DispatchBegin(p, order, FALSE)
       \/ DispatchStep(p)
       \/ HandlerReturn(p)
       \/ DispatchDefer(p)
       \/ DispatchReturn(p)
    /\ UNCHANGED <<midVars, matchVars, obsVars>>

\* Lock() returns to a caller waiting in it.
LockReturns(p) == LockGranted(p) /\ UNCHANGED <<midVars, matchVars, obsVars>>

\* NProcs callers that call the registry operations and Route.
NextWaiting ==
    /\ \/ \E p \in Procs, op \in WaitingOps : LockCall(p, op)
       \/ \E p \in Procs : LockGranted(p)
       \/ \E p \in Procs, pb \in DispatchPackets : RouteRLock(p, pb)
       \/ \E p \in Procs, order \in Orders(DOMAIN subscriptions) :
              DispatchBegin(p, order, FALSE)
       \/ \E p \in Procs : DispatchStep(p)
       \/ \E p \in Procs : HandlerReturn(p)
       \/ \E p \in Procs : DispatchDefer(p)
       \/ \E p \in Procs : DispatchReturn(p)
    /\ UNCHANGED <<midVars, matchVars, obsVars>>

\* The goroutine of a caller inside Route keeps running and every function
\* it calls returns; a Lock() that could return all the time does return.
FairWaiting == \A p \in Procs : WF_vars(RouteRuns(p)) /\ WF_vars(LockReturns(p))

SpecWaiting == Init /\ [][NextWaiting]_vars /\ FairWaiting

(***************************************************************************)
(* Claims about the MIDs service                                           *)
(***************************************************************************)

\* C1: under any interleaving of concurrent Request, Get and Free calls, no
\* identifier is held by two outstanding (issued and not yet freed) requests.
C1_NoDuplicateIssue ==
    /\ \A i \in IDs : outstanding[i] <= 1
    /\ \A i \in IDs : outstanding[i] = 1 <=> i \in DOMAIN index

\* A second caller waits for the lock while the first is being issued an
\* identifier next to one that is already outstanding.
C1_Witness ==
    \E p \in Procs, q \in Procs :
        /\ p # q
        /\ pc[p] = "req_ret" /\ ~rerr[p]
        /\ pc[q] = "req_lock"
        /\ \E j \in DOMAIN index : j # rid[p] /\ index[j] = q

\* C2: Request fails with ErrNoMoreIDs only when every identifier 1..MaxID
\* is in use; with at least one identifier free, Request succeeds.
C2_FailsOnlyWhenFull ==
    \A p \in Procs :
        (pc[p] = "req_ret" /\ rerr[p]) => DOMAIN index = 1..MaxID

\* What the code guarantees instead: a failing Request found every
\* identifier from the advanced cursor up to MaxID - 1 in use.
C2_FailsWhenTailFull ==
    \A p \in Procs :
        (pc[p] = "req_ret" /\ rerr[p]) =>
            \A k \in lastIdUsed..(MaxID - 1) : k \in DOMAIN index

\* C3: a successful Request returns an identifier in 1..MaxID, 0 is returned
\* only together with ErrNoMoreIDs, and 0 is never a key of the table.
C3_ZeroNeverIssued ==
    /\ 0 \notin DOMAIN index
    /\ \A p \in Procs :
        pc[p] = "req_ret" =>
            IF rerr[p] THEN rid[p] = 0 ELSE rid[p] \in 1..MaxID

\* A Request succeeds right after the cursor wrapped from MaxID back to 1.
C3_Witness ==
    /\ pc[1] = "req_ret" /\ ~rerr[1]
    /\ rid[1] = 1
    /\ MaxID \in DOMAIN index

(***************************************************************************)
(* Claims about the matcher                                                *)
(***************************************************************************)
\* The levels of a string: none for the empty string.
Levels(x) == IF x = <<>> THEN <<>> ELSE Split(x)

\* The levels of a filter that are compared: a filter whose first level is
\* the shared-subscription marker loses its first two levels.
FilterLevels(f) ==
    LET L == Levels(f)
    IN  IF L # <<>> /\ L[1] = Share THEN SubSeq(L, 3, Len(L)) ELSE L

\* The level-by-level comparison, stated without recursion. Either the
\* filter has a first "#" at level k, the topic has at least k - 1 levels and
\* the levels before k agree; or filter and topic have the same number of
\* levels, none of the filter's is "#", and all agree. Two levels agree when
\* the filter's is "+" or they are equal.
LevelsMatch(F, T) ==
    LET agree(i) == F[i] = Plus \/ F[i] = T[i]
    IN  \/ \E k \in 1..Len(F) :
              /\ F[k] = Hash
              /\ k - 1 <= Len(T)
              /\ \A i \in 1..(k - 1) : F[i] # Hash /\ agree(i)
        \/ /\ Len(F) = Len(T)
           /\ \A i \in 1..Len(F) : F[i] # Hash /\ agree(i)

\* C6: for every filter and topic, match(filter, topic) returns the result
\* of the level-by-level comparison of their levels.
C6_MatchIsLevelByLevel ==
    mResult # <<>> =>
        /\ ~mResult[1].panic
        /\ mResult[1].value = LevelsMatch(FilterLevels(mRoute), Levels(mTopic))

\* The same for the filters that do not begin with "$share".
C6_PlainFilters ==
    (mResult # <<>> /\ ~HasPrefix(mRoute, Share)) =>
        /\ ~mResult[1].panic
        /\ mResult[1].value = LevelsMatch(Levels(mRoute), Levels(mTopic))

(***************************************************************************)
(* Claims about the router. They read the state a Route call leaves:       *)
(* lastOp is the call, trace what it ran, outcome how it ended.            *)
(***************************************************************************)
Routed == lastOp.op = "Route"
\* The topic the last Route matched the patterns against.
RoutedTopic == EffectiveTopic(aliases, lastOp.pb)
\* The pattern matches the topic (a match that faults matches nothing).
Matches(route, topic) ==
    ~MatchTable[route, topic].panic /\ MatchTable[route, topic].value
\* No registered pattern makes match fault on the topic.
NoFault(topic) == \A f \in DOMAIN subscriptions : ~MatchTable[f, topic].panic
\* The handlers run for the pattern, in the order they ran.
RanUnder(route) ==
    LET ev == SelectSeq(trace, LAMBDA e : e.kind = "handler" /\ e.route = route)
    IN  [k \in 1..Len(ev) |-> ev[k].id]
\* The registered handlers run, and the runs of the default handler.
RanRegistered == SelectSeq(trace, LAMBDA e : e.kind = "handler")
RanDefault == SelectSeq(trace, LAMBDA e : e.kind = "default")
Occurrences(list, x) == Cardinality({k \in 1..Len(list) : list[k] = x})

DefaultIffNothingRan ==
    /\ outcome = "returned"
    /\ Len(RanDefault) =
           (IF defaultHandler # NilHandler /\ Len(RanRegistered) = 0 THEN 1 ELSE 0)
    /\ \A k \in 1..Len(RanDefault) : RanDefault[k].id = defaultHandler
    /\ (\E f \in DOMAIN subscriptions : Matches(f, RoutedTopic)) => Len(RanDefault) = 0
    /\ ((\A f \in DOMAIN subscriptions : ~Matches(f, RoutedTopic))
            /\ defaultHandler = NilHandler) => trace = <<>>

\* C4: in every Route call the default handler is invoked, exactly once, if
\* and only if it is set and no registered handler was invoked; it is not
\* invoked when a filter matches; with no match and no default handler
\* nothing is invoked and Route returns normally.
C4_DefaultIffNothingRan == Routed => DefaultIffNothingRan

\* The same for the Route calls in which match does not fault.
C4_WhenNoFault == (Routed /\ NoFault(RoutedTopic)) => DefaultIffNothingRan

EachRegistrationOnce ==
    \A f \in RouteFilters, h \in Handlers :
        Occurrences(RanUnder(f), h) =
            (IF f \in DOMAIN subscriptions /\ Matches(f, RoutedTopic)
             THEN Occurrences(subscriptions[f], h) ELSE 0)

\* C5: Route invokes each handler registered under each filter that matches
\* the effective topic once per registration (also under overlapping filters
\* and for a handler registered twice), and no handler of another filter.
C5_EachRegistrationOnce == Routed => EachRegistrationOnce

\* The same for the Route calls in which match does not fault.
C5_WhenNoFault == (Routed /\ NoFault(RoutedTopic)) => EachRegistrationOnce

\* The alias cache changes only when a packet with an alias and a non-empty
\* topic is routed, and then only at that alias, which takes that topic.
AliasStep ==
    aliases' # aliases =>
        /\ lastOp'.op = "Route"
        /\ lastOp'.pb.alias # NoAlias /\ lastOp'.pb.topic # ""
        /\ aliases' = MapStore(aliases, lastOp'.pb.alias, lastOp'.pb.topic)
\* A Route of a packet with a mapped alias matches against the mapping, which
\* is the packet's own topic when it has one, and invokes the handlers
\* registered on that topic.
AliasRouted ==
    (Routed /\ lastOp.pb.alias \in DOMAIN aliases) =>
        LET T == aliases[lastOp.pb.alias]
        IN  /\ lastOp.pb.topic # "" => T = lastOp.pb.topic
            /\ RoutedTopic = T
            /\ \A f \in DOMAIN subscriptions :
                   (f = T \/ Matches(f, T)) => RanUnder(f) = subscriptions[f]
AliasRoutedWhenNoFault ==
    (Routed /\ lastOp.pb.alias \in DOMAIN aliases /\ NoFault(RoutedTopic)) =>
        LET T == aliases[lastOp.pb.alias]
        IN  /\ lastOp.pb.topic # "" => T = lastOp.pb.topic
            /\ RoutedTopic = T
            /\ \A f \in DOMAIN subscriptions :
                   (f = T \/ Matches(f, T)) => RanUnder(f) = subscriptions[f]

\* C7: after a Route with alias A and topic T, later alias-only Routes with
\* A are matched against T until a Route with A and another topic overwrites
\* the mapping; a handler registered on T is invoked for all of them.
C7_AliasResolves == [][AliasStep /\ AliasRouted']_vars

\* The same for the Route calls in which match does not fault.
C7_WhenNoFault == [][AliasStep /\ AliasRoutedWhenNoFault']_vars

Before(mw, topic) == [kind |-> "before", id |-> mw, route |-> "", topic |-> topic]
After(mw, topic) == [kind |-> "after", id |-> mw, route |-> "", topic |-> topic]

\* C8: with middlewares m1..mn registered in that order, through any number
\* of Use calls, every handler invocation runs m1-before, ..., mn-before, the
\* handler, mn-after, ..., m1-after; with no middleware only the handler.
C8_MiddlewareOrder ==
    /\ lastOp.op = "Use" =>
           /\ Len(middlewares) >= Len(lastOp.mws)
           /\ SubSeq(middlewares, Len(middlewares) - Len(lastOp.mws) + 1,
                     Len(middlewares)) = lastOp.mws
    /\ Routed =>
           LET n == Len(middlewares)
               L == 2 * n + 1
               t == lastOp.pb.topic
           IN  /\ Len(trace) % L = 0
               /\ \A b \in 0..((Len(trace) \div L) - 1) :
                      /\ trace[b * L + n + 1].kind \in {"handler", "default"}
                      /\ \A j \in 1..n :
                             /\ trace[b * L + j] = Before(middlewares[j], t)
                             /\ trace[b * L + n + 1 + j] = After(middlewares[n + 1 - j], t)

\* Two different middlewares are registered and a handler ran inside both.
C8_Witness ==
    /\ Routed
    /\ middlewares = <<"m1", "m2">>
    /\ Len(RanRegistered) > 0

\* The places in the trace where the handlers of the pattern ran.
PlacesUnder(route) ==
    {k \in 1..Len(trace) : trace[k].kind = "handler" /\ trace[k].route = route}

\* C9: within one Route call the handlers registered under the same filter
\* are invoked in the order in which they were registered, each starting
\* only after the previous one has returned.
C9_RegistrationOrder ==
    /\ lastOp.op = "RegisterHandler" =>
           LET list == subscriptions[lastOp.filter]
           IN  list[Len(list)] = lastOp.handler
    /\ Routed =>
           \A f \in DOMAIN subscriptions :
               /\ RanUnder(f) \in {<<>>, subscriptions[f]}
               /\ \A k \in PlacesUnder(f) :
                      \/ k = Min(PlacesUnder(f))
                      \/ k - (2 * Len(middlewares) + 1) \in PlacesUnder(f)

\* Two different handlers registered under one pattern ran, inside a
\* middleware.
C9_Witness ==
    /\ Routed
    /\ Len(middlewares) > 0
    /\ \E f \in DOMAIN subscriptions : RanUnder(f) = <<"h1", "h2">>

\* UnregisterHandler(f) removes the entry of f and changes nothing else.
UnregisterStep ==
    lastOp'.op = "UnregisterHandler" =>
        /\ DOMAIN subscriptions' = DOMAIN subscriptions \ {lastOp'.filter}
        /\ \A x \in DOMAIN subscriptions' : subscriptions'[x] = subscriptions[x]
        /\ UNCHANGED <<defaultHandler, middlewares, aliases>>
\* A Route of a topic that only patterns without an entry match invokes no
\* registered handler and falls through to the default handler if one is set.
RoutedAfterUnregister ==
    (Routed /\ \A x \in DOMAIN subscriptions : ~Matches(x, RoutedTopic)) =>
        /\ RanRegistered = <<>>
        /\ defaultHandler # NilHandler => Len(RanDefault) = 1

\* C10: UnregisterHandler(f) removes every handler registered under the
\* exact filter f and nothing else, and is a no-op when f is unknown; a later
\* Route of a topic that only f matched invokes none of the removed handlers
\* and falls through to the default handler if one is set.
C10_UnregisterExact == [][UnregisterStep /\ RoutedAfterUnregister']_vars

\* The same for the Route calls in which match does not fault.
C10_WhenNoFault ==
    [][UnregisterStep /\ (NoFault(RoutedTopic) => RoutedAfterUnregister)']_vars

\* DefaultHandler(h) stores h, and nothing else changes the default handler.
DefaultHandlerStep ==
    /\ lastOp'.op = "DefaultHandler" => defaultHandler' = lastOp'.handler
    /\ defaultHandler' # defaultHandler => lastOp'.op = "DefaultHandler"
\* A Route that no registered pattern matches runs the default handler that
\* is set, once, and nothing else; it runs nothing when none is set.
UnmatchedRunsDefault ==
    trace = IF defaultHandler = NilHandler THEN <<>>
            ELSE Invoke(wrapHandler(middlewares, DefaultFn(defaultHandler)),
                        [topic |-> lastOp.pb.topic]).events

\* C11: there is at most one default handler: DefaultHandler(h) replaces
\* any earlier one and DefaultHandler(nil) clears it, so an unmatched Route
\* invokes the most recently set handler and nothing else, and nothing at
\* all if the last call passed nil.
C11_LatestDefaultOnly ==
    [][/\ DefaultHandlerStep
       /\ ((Routed /\ \A f \in DOMAIN subscriptions : ~Matches(f, RoutedTopic))
              => UnmatchedRunsDefault)']_vars

\* The same for the Route calls in which match does not fault.
C11_WhenNoFault ==
    [][/\ DefaultHandlerStep
       /\ ((Routed /\ NoFault(RoutedTopic)
                   /\ \A f \in DOMAIN subscriptions : ~Matches(f, RoutedTopic))
              => UnmatchedRunsDefault)']_vars

(***************************************************************************)
(* Claims about the identifier table under one caller.                     *)
(***************************************************************************)
\* Every identifier is in use.
TableFull == DOMAIN index = 1..MaxID
\* The caller is inside Request, past m.Lock().
InRequest(p) == pc[p] \in {"req_probe", "req_store", "req_next"}

\* C12: whenever all identifiers are in use, the next Request returns
\* ErrNoMoreIDs with identifier 0 and allocates nothing: the table is what
\* it was before the call.
C12_FullTableRefuses ==
    [][\A p \in Procs :
          (InRequest(p) /\ TableFull) =>
              /\ index' = index
              /\ pc'[p] \in {"req_next", "req_ret"}
              /\ pc'[p] = "req_ret" => (rerr'[p] /\ rid'[p] = 0)]_vars

\* A Request made with every identifier in use is returning its error.
C12_Witness ==
    /\ pc[1] = "req_ret"
    /\ rerr[1] /\ rid[1] = 0
    /\ TableFull
    /\ \A i \in 1..MaxID : outstanding[i] = 1

\* C13: after Clear(), Get(id) returns absent (nil) for every identifier
\* that was issued before the Clear, whatever Request and Free calls came
\* before it.
C13_ClearedIsAbsent ==
    (pc[1] = "get_ret" /\ ledger[id[1]].status = "cleared") => got[1] = NilWaiter

\* A Get of an identifier that a Clear dropped is returning.
C13_Witness ==
    /\ pc[1] = "get_ret"
    /\ ledger[id[1]].status = "cleared"
    /\ \E i \in IDs : ledger[i].status = "freed"

\* The step delete(m.index, i) of Free(i) removes the entry of i, if there
\* is one, and leaves every other entry and the cursor alone.
FreeStep ==
    \A p \in Procs :
        pc[p] = "free_del" =>
            /\ DOMAIN index' = DOMAIN index \ {id[p]}
            /\ \A x \in DOMAIN index' : index'[x] = index[x]
            /\ id[p] \notin DOMAIN index => index' = index
            /\ lastIdUsed' = lastIdUsed
\* A Request whose cursor comes to an identifier that is not in use issues
\* it, whether or not it was in use before.
ReissueStep ==
    \A p \in Procs :
        /\ (pc[p] = "req_probe" /\ NextCursor(lastIdUsed) \notin DOMAIN index)
               => (pc'[p] = "req_store" /\ id'[p] = NextCursor(lastIdUsed))
        /\ pc[p] = "req_store"
               => (pc'[p] = "req_ret" /\ rid'[p] = id[p] /\ ~rerr'[p])
\* A Get of an identifier given back by Free returns nil.
FreedIsAbsent ==
    (pc[1] = "get_ret" /\ ledger[id[1]].status = "freed") => got[1] = NilWaiter

\* C14: Free(id) removes the association of id and only that one, and is a
\* no-op for an identifier that is not in use; after Free(id), Get(id)
\* returns absent and a later Request can return id again.
C14_FreeRemovesOne == [][FreeStep /\ ReissueStep /\ FreedIsAbsent']_vars

\* A Request is returning an identifier that was given back by Free, while
\* the other identifiers are still held.
C14_Witness ==
    /\ pc[1] = "req_ret"
    /\ ~rerr[1]
    /\ ledger[rid[1]].status = "freed"
    /\ \E i \in IDs : ledger[i].status = "held" /\ i \in DOMAIN index

\* Get changes neither the table nor the cursor.
GetStep ==
    \A p \in Procs :
        pc[p] \in {"get_lock", "get_ret"} => UNCHANGED <<index, lastIdUsed>>
\* Get(id) returns the waiter passed to the Request that issued id while the
\* caller holds id, and nil otherwise.
GetResult ==
    pc[1] = "get_ret" =>
        got[1] = (IF ledger[id[1]].status = "held"
                  THEN ledger[id[1]].waiter ELSE NilWaiter)

\* C15: Get(id) is a pure lookup: it returns the waiter passed to the
\* Request that issued id if id is in use and absent (nil) otherwise, and
\* leaves the table and the cursor unchanged.
C15_GetIsPureLookup == [][GetStep /\ GetResult']_vars

\* A Get of an identifier in use is returning its waiter, while another
\* identifier is held with the other waiter.
C15_Witness ==
    /\ pc[1] = "get_ret"
    /\ ledger[id[1]].status = "held"
    /\ got[1] = ledger[id[1]].waiter
    /\ \E i \in IDs : ledger[i].status = "held" /\ ledger[i].waiter # got[1]

(***************************************************************************)
(* Claims about the identifier table under concurrent callers, Clear       *)
(* included.                                                               *)
(***************************************************************************)
\* The caller is between m.Lock() and m.Unlock().
InCriticalSection(p) ==
    pc[p] \in {"req_probe", "req_store", "req_next", "req_ret", "get_ret", "free_del"}

\* C16: every operation (Request, Get, Free and Clear) accesses the table
\* only while holding the mutex: the table is changed only by a step of the
\* caller that holds the mutex, so never while another operation is in the
\* middle of its critical section.
C16_TableOnlyUnderMutex ==
    [][index' # index =>
           \E p \in Procs : mutex = p /\ InCriticalSection(p) /\ pc'[p] # pc[p]]_vars

\* The same for the steps of Request, Get and Free.
C16_ExceptClear ==
    [][(index' # index /\ pc' # pc) =>
           \E p \in Procs : mutex = p /\ InCriticalSection(p) /\ pc'[p] # pc[p]]_vars

(***************************************************************************)
(* Claims about concurrent Route calls.                                    *)
(***************************************************************************)
\* C17: the alias-cache store of Route is executed under exclusive access:
\* two concurrent Route calls are never both inside the section that writes
\* or reads the alias cache, so concurrent dispatches that store the same
\* alias cannot race.
C17_AliasSectionExclusive ==
    /\ \A p, q \in Procs : (InAliasSection(p) /\ InAliasSection(q)) => p = q
    /\ outcome # "fatal"

\* What the RWMutex does give: the registry changes only while no Route
\* call is in progress.
C17_RegistryExclusive ==
    [][subscriptions' # subscriptions => (readers = {} /\ readers' = {})]_vars

(***************************************************************************)
(* Claims about shared-subscription filters.                               *)
(***************************************************************************)
\* C18: for every group id g, filter f and topic t,
\* match("$share/" + g + "/" + f, t) equals match(f, t).
C18_SharePrefixStripped == Len(mResult) = 3 => mResult[2] = mResult[1]

\* The same for the filters that are not empty and do not begin with
\* "$share", and the topics that do not begin with "$share".
C18_PlainFilterAndTopic ==
    (/\ Len(mResult) = 3
     /\ mRoute # <<>>
     /\ ~HasPrefix(mRoute, Share)
     /\ ~HasPrefix(mTopic, Share)) => mResult[2] = mResult[1]

(***************************************************************************)
(* Claims about faults of matching and dispatch.                           *)
(***************************************************************************)
\* C19: matching and dispatch never fail outright: for every filter that
\* RegisterHandler accepted and every topic, match returns true or false
\* without faulting, and Route (its handlers do not fault) returns normally.
C19_NeverFaults ==
    /\ \A f \in DOMAIN subscriptions, t \in RouteTopics : ~MatchTable[f, t].panic
    /\ Routed => outcome = "returned"

\* Route returns normally when match faults on no registered pattern.
C19_WhenNoFault == (Routed /\ NoFault(RoutedTopic)) => outcome = "returned"

\* match faults only on a pattern that begins with "$share" and holds no
\* "/", with a topic that is not the same string.
C19_FaultsOnlyOnBareShare ==
    (mResult # <<>> /\ mResult[1].panic) =>
        /\ HasPrefix(mRoute, Share)
        /\ Len(Split(mRoute)) < 2
        /\ mRoute # mTopic

\* The last Route was of a packet with an alias that has no mapping and with
\* an empty topic.
RoutedUnmappedAlias ==
    /\ Routed
    /\ lastOp.pb.alias # NoAlias
    /\ lastOp.pb.topic = ""
    /\ lastOp.pb.alias \notin DOMAIN aliases

\* C20: a message that carries an alias with no stored mapping and an empty
\* topic has an empty effective topic, which no registered filter matches:
\* Route of it invokes no registered handler and invokes the default handler
\* if one is set.
C20_UnmappedAliasToDefault ==
    RoutedUnmappedAlias =>
        /\ RoutedTopic = ""
        /\ \A f \in DOMAIN subscriptions : ~Matches(f, "")
        /\ RanRegistered = <<>>
        /\ defaultHandler # NilHandler => Len(RanDefault) = 1

\* The patterns that match the empty topic: those without levels and those
\* whose first level is "#".
MatchesEmpty(f) ==
    LET L == FilterLevels(Chars[f]) IN L = <<>> \/ L[1] = Hash

\* What holds of such a Route: the effective topic is empty, only handlers
\* under patterns that match the empty topic run, and when match does not
\* fault all of them run, or else the default handler if one is set.
C20_EmptyTopicRouted ==
    RoutedUnmappedAlias =>
        /\ RoutedTopic = ""
        /\ \A k \in 1..Len(RanRegistered) : MatchesEmpty(RanRegistered[k].route)
        /\ NoFault("") =>
               /\ \A f \in DOMAIN subscriptions :
                      RanUnder(f) = (IF MatchesEmpty(f) THEN subscriptions[f] ELSE <<>>)
               /\ Len(RanDefault) =
                      (IF defaultHandler # NilHandler /\ RanRegistered = <<>> THEN 1 ELSE 0)

(***************************************************************************)
(* Claims about concurrent registration.                                   *)
(***************************************************************************)
\* The entry of every pattern holds the handlers of the registrations that
\* returned, one place for each, and nothing else.
AllRegistered ==
    /\ DOMAIN subscriptions = DOMAIN registered
    /\ \A f \in DOMAIN registered :
           /\ Len(subscriptions[f]) = Len(registered[f])
           /\ \A h \in Handlers :
                  Occurrences(subscriptions[f], h) = Occurrences(registered[f], h)
\* The Route that followed invoked, under each pattern that matches its
\* topic, the handler of each registration that returned, once.
RoutedRegistered ==
    \A f \in DOMAIN registered, h \in Handlers :
        Matches(f, RoutedTopic) =>
            Occurrences(RanUnder(f), h) = Occurrences(registered[f], h)

\* C21: RegisterHandler calls issued concurrently for the same filter never
\* lose an update: after k of them have returned the entry of the filter
\* holds all k handlers, and a subsequent Route of a matching topic invokes
\* each of them exactly once.
C21_NoLostRegistration ==
    /\ Registering = {} => AllRegistered
    /\ Routed => RoutedRegistered

\* The same for the Route calls in which match does not fault.
C21_WhenNoFault ==
    /\ Registering = {} => AllRegistered
    /\ (Routed /\ NoFault(RoutedTopic)) => RoutedRegistered

\* Two registrations for one pattern were in progress together, both have
\* returned, and a Route ran their handlers.
C21_BothRan ==
    /\ Routed
    /\ \E f \in DOMAIN registered :
           /\ registered[f] \in {<<"h1", "h2">>, <<"h2", "h1">>}
           /\ Len(RanUnder(f)) = 2

(***************************************************************************)
(* Claims about concurrent dispatch.                                       *)
(***************************************************************************)
\* The registrations under the patterns that match the topic.
MatchingRegistrations(topic) ==
    {<<f, k>> : f \in {x \in DOMAIN subscriptions : Matches(x, topic)}, k \in 1..MaxRegs}
        \cap {<<f, k>> \in RouteFilters \X (1..MaxRegs) :
                  f \in DOMAIN subscriptions /\ k <= Len(subscriptions[f])}
\* The last Route was of a message without alias whose topic exactly one
\* registered handler matches.
RoutedToOneHandler ==
    /\ Routed
    /\ lastOp.pb.alias = NoAlias
    /\ Cardinality(MatchingRegistrations(lastOp.pb.topic)) = 1
\* That Route returned after it invoked that handler once and nothing else.
InvokedThatHandlerOnce ==
    /\ outcome = "returned"
    /\ Len(trace) = 1
    /\ \E r \in MatchingRegistrations(lastOp.pb.topic) :
           trace[1] = [kind |-> "handler", id |-> subscriptions[r[1]][r[2]],
                       route |-> r[1], topic |-> lastOp.pb.topic]

\* C22: N Route calls issued concurrently for a topic matched by one
\* registered handler produce exactly N invocations of that handler, one
\* per Route call, under every interleaving: no call ends without its
\* invocation (none is lost) and none invokes the handler twice.
C22_OneInvocationPerRoute ==
    /\ outcome # "fatal"
    /\ RoutedToOneHandler => InvokedThatHandlerOnce

\* The same for the Route calls in which match does not fault, as long as
\* the accesses to the alias cache have not ended the process.
C22_WhenNoFault ==
    (Alive /\ RoutedToOneHandler /\ NoFault(lastOp.pb.topic)) => InvokedThatHandlerOnce

\* A Route call invoked the one matching handler while another Route call
\* for the same topic was in progress.
C22_WhileAnotherRoutes ==
    /\ RoutedToOneHandler
    /\ InvokedThatHandlerOnce
    /\ \E p \in Procs : routing[p].pc = "route_scan" /\ routing[p].pb = lastOp.pb

(***************************************************************************)
(* Claims about the loop of Route, followed step by step.                  *)
(***************************************************************************)
\* The caller is inside the loop of Route, its deferred calls not yet run.
InLoop(p) == dispatch[p].pc \in {"route_next", "route_handler", "route_defer"}
\* A handler or the default handler called by the Route call of p is running.
HandlerRunning(p) == dispatch[p].task # "none"

\* The context of a dispatch is made when its loop starts and is the same
\* until the deferred calls have run.
SameContext ==
    \A p \in Procs :
        /\ (~InLoop(p) /\ InLoop(p)') =>
               /\ dispatch'[p].ctx.id # NoContextId
               /\ dispatch'[p].ctx.cancel => dispatch'[p].ctx.id[2] = p
        /\ (InLoop(p) /\ dispatch'[p].pc # "idle") =>
               dispatch'[p].ctx.id = dispatch[p].ctx.id
\* A running handler was handed the context of its dispatch, which is not
\* cancelled; when the deferred calls have run, a context that Route made
\* with a cancellation is cancelled.
ContextLiveWhileRunning ==
    \A p \in Procs :
        /\ InLoop(p) => dispatch[p].ctx.state = "live"
        /\ HandlerRunning(p) =>
               /\ dispatch[p].handed = dispatch[p].ctx.id
               /\ dispatch[p].ctx.state = "live"
        /\ dispatch[p].pc = "route_unlock" =>
               dispatch[p].ctx.state = (IF dispatch[p].ctx.cancel THEN "cancelled" ELSE "live")

Recovering == \E i \in 1..Len(middlewares) : middlewares[i] = Recoverer
\* The places in the trace where a handler or default handler that panics
\* was invoked.
FaultyPlaces ==
    {k \in 1..Len(trace) :
        trace[k].kind \in {"handler", "default"} /\ trace[k].id \in FaultyHandlers}

\* C24: the router does not catch handler faults: when a handler panics and
\* no recovery middleware is registered, the panic propagates out of Route
\* to its caller, and neither the handlers not yet invoked in that dispatch
\* nor the default handler are invoked.
C24_PanicPropagates ==
    (Routed /\ ~Recovering /\ FaultyPlaces # {}) =>
        /\ outcome = "panicked"
        /\ FaultyPlaces = {Len(trace)}
        /\ trace[Len(trace)].kind = "handler" => RanDefault = <<>>

\* A handler registered before another under one pattern panicked inside a
\* middleware, with a default handler set.
C24_Witness ==
    /\ Routed /\ ~Recovering /\ FaultyPlaces # {}
    /\ middlewares # <<>>
    /\ defaultHandler # NilHandler
    /\ \E f \in DOMAIN subscriptions :
           Matches(f, RoutedTopic) /\ subscriptions[f] = <<"hp", "h1">>

\* Route returned after it ran every handler under every pattern that
\* matches, and the default handler only if no pattern matches.
RanAllMatching ==
    /\ outcome = "returned"
    /\ \A f \in DOMAIN subscriptions :
           RanUnder(f) = (IF Matches(f, RoutedTopic) THEN subscriptions[f] ELSE <<>>)
    /\ Len(RanDefault) =
           (IF defaultHandler # NilHandler
               /\ \A f \in DOMAIN subscriptions : ~Matches(f, RoutedTopic)
            THEN 1 ELSE 0)

\* C25: with the Recoverer middleware registered, a panic of a handler is
\* contained inside the wrapped invocation of that handler: Route goes on
\* to invoke the remaining matched handlers and returns normally, and the
\* panicking handler counts as an invocation, so the default handler is not
\* invoked.
C25_RecovererContains == (Routed /\ Recovering /\ FaultyPlaces # {}) => RanAllMatching

\* The same for the Route calls in which match does not fault.
C25_WhenNoFault ==
    (Routed /\ Recovering /\ FaultyPlaces # {} /\ NoFault(RoutedTopic)) => RanAllMatching

\* With Recoverer registered and a default handler set, a handler panicked
\* and the handler registered behind it under the same pattern ran.
C25_RanBehindPanic ==
    /\ Routed /\ Recovering
    /\ defaultHandler # NilHandler
    /\ \E f \in DOMAIN subscriptions : RanUnder(f) = <<"hp", "h1">>

(***************************************************************************)
(* The diagnostic sink.                                                    *)
(***************************************************************************)
LoggerFilters == {"a/b", "a/#"}
LoggerPackets == [topic : {"a/b", "c"}, alias : {NoAlias}]

\* One caller sets the sink, changes the registry and routes.
NextLogger ==
    /\ \/ \E l \in Loggers : SetDebugLogger(l)
       \/ \E f \in LoggerFilters, h \in {"h1"} : RegisterHandler(f, h)
       \/ \E f \in LoggerFilters : UnregisterHandler(f)
       \/ Use(<<"m1">>)
       \/ \E h \in {"h1", NilHandler} : DefaultHandler(h)
       \/ \E pb \in LoggerPackets, order \in Orders(DOMAIN subscriptions) : Route(pb, order)
       \/ Return
    /\ UNCHANGED <<midVars, matchVars, obsVars>>

SpecLogger == Init /\ [][NextLogger]_vars

\* The operations of the router that log.
LoggingOps == {"RegisterHandler", "UnregisterHandler", "Use", "DefaultHandler", "Route"}

\* C26: the diagnostic sink of a router is never a null reference when an
\* operation logs: also after SetDebugLogger was given the nil sink,
\* RegisterHandler, UnregisterHandler, Use, DefaultHandler and Route
\* complete without a nil dereference.
C26_SinkNeverNil ==
    lastOp.op \in LoggingOps => (debug # NilLogger /\ outcome # "nil dereference")

\* What holds: an operation faults on logging only when, and whenever, the
\* sink is the nil one that SetDebugLogger was given.
C26_WhenSinkGiven ==
    /\ outcome = "nil dereference" => lastOp.op \in LoggingOps
    /\ lastOp.op \in LoggingOps => (outcome = "nil dereference" <=> debug = NilLogger)

\* An operation completed on a router whose sink was set to a logger of
\* the caller's.
C26_LoggedToGivenSink ==
    /\ debug = "logger"
    /\ Routed /\ outcome = "returned" /\ trace # <<>>

(***************************************************************************)
(* Claims about the tasks and the lock of a dispatch.                      *)
(***************************************************************************)
\* C27: Route is synchronous: a handler or default handler that a dispatch
\* invoked runs on the task that called Route, which waits in that call
\* inside Route; the router starts no task, so the loop does not go on
\* and Route does not return while a handler of its dispatch runs.
C27_RouteSynchronous ==
    \A p \in Procs :
        dispatch[p].task # "none" =>
            /\ dispatch[p].task = "caller"
            /\ dispatch[p].pc = "route_handler"
            /\ routing[p].pc = "route_run"
            /\ p \in readers

\* The second handler of a dispatch runs on the caller's task, after the
\* first has returned, while another caller is outside Route.
C27_Witness ==
    \E p, q \in Procs :
        /\ dispatch[p].task = "caller" /\ dispatch[p].called
        /\ Innermost(dispatch[p].fn).kind = "handler"
        /\ q # p /\ routing[q] = NotRouting

(***************************************************************************)
(* Claims about the order in which identifiers are issued.                 *)
(***************************************************************************)
\* The identifiers after L in the cyclic order L+1, ..., MaxID, 1, ..., L.
CyclicOrder(L) == [k \in 1..MaxID |-> ((L + k - 1) % MaxID) + 1]
\* The first identifier of that order that is not in use.
CyclicFirstFree(L, used) ==
    LET order == CyclicOrder(L)
    IN  order[Min({k \in 1..MaxID : order[k] \notin used})]
\* The identifiers in use when the Request that is returning was called.
UsedAtCall == DOMAIN index \ {rid[1]}
Succeeds == pc[1] = "req_ret" /\ ~rerr[1]

\* C28: a successful Request returns the first identifier not in use in the
\* cyclic order L+1, ..., MaxID, 1, ..., L, where L is the identifier the
\* most recent successful Request returned (0 on a fresh service).
C28_CyclicFromLastIssued ==
    Succeeds => rid[1] = CyclicFirstFree(issued.last, UsedAtCall)

\* What holds: the same when no Request has failed since the last
\* successful one, so that the cursor is at the identifier last issued.
C28_WhenNoneFailed ==
    (Succeeds /\ ~issued.failed) => rid[1] = CyclicFirstFree(issued.last, UsedAtCall)

\* And: after a Request returned k and k was freed, the next Request
\* returns k+1 when k+1 is free, not the lower k.
C28_NotLowestFree ==
    (/\ Succeeds /\ ~issued.failed
     /\ issued.last \in 1..(MaxID - 1)
     /\ ledger[issued.last].status = "freed"
     /\ issued.last + 1 \notin UsedAtCall)
    => rid[1] = issued.last + 1

\* A Request returned k+1 with the lower k, issued last and since freed,
\* not in use.
C28_SpreadsReuse ==
    /\ Succeeds /\ ~issued.failed
    /\ issued.last \in 1..(MaxID - 1)
    /\ ledger[issued.last].status = "freed" /\ issued.last \notin DOMAIN index
    /\ rid[1] = issued.last + 1

\* The Route call of p holds the read lock: from r.RLock() to the deferred
\* r.RUnlock(), the scan of the filters and every handler in between.
Dispatching(p) == routing[p].pc # "idle"

\* C29: a dispatch sees one registry state: while a Route call is between
\* the start of its scan of the filters and the return of its last
\* handler, no RegisterHandler, UnregisterHandler, Use or DefaultHandler
\* takes effect on the router; other Route calls go on meanwhile.
C29_OneRegistryState ==
    [][(\E p \in Procs : Dispatching(p)) =>
           UNCHANGED <<subscriptions, middlewares, defaultHandler>>]_vars

\* Two Route calls run their handlers at the same time, with middleware
\* registered and no other call of the router under way.
C29_Witness ==
    /\ \A p \in Procs : HandlerRunning(p) /\ dispatch[p].pc = "route_handler"
    /\ middlewares # <<>>
    /\ lastOp = NoOp

(***************************************************************************)
(* Claims about the wrapping of each invocation.                           *)
(***************************************************************************)
\* The places in the trace where a handler or the default handler ran.
HandlerPlaces == {k \in 1..Len(trace) : trace[k].kind \in {"handler", "default"}}
\* The handler place before the place a, 0 when a is the first.
PlaceBefore(a) ==
    IF \E b \in HandlerPlaces : b < a
    THEN CHOOSE b \in HandlerPlaces : b < a /\ \A c \in HandlerPlaces : c < a => c <= b
    ELSE 0
\* How often the event occurs in the trace between the places a and b.
Between(a, b, e) == Cardinality({k \in (a + 1)..(b - 1) : trace[k] = e})

\* C30: every handler invocation of a dispatch, the one of the default
\* handler included, is wrapped on its own by the whole middleware chain:
\* when the dispatch invoked k handlers, the code before and the code after
\* of each registered middleware ran k times, once around each handler and
\* never around two handlers at once.
C30_WrappedIndependently ==
    Routed =>
        LET t == lastOp.pb.topic
            k == Cardinality(HandlerPlaces)
        IN  \A i \in 1..Len(middlewares) :
                LET n == Occurrences(middlewares, middlewares[i])
                    before == Before(middlewares[i], t)
                    after == After(middlewares[i], t)
                IN  /\ Between(0, Len(trace) + 1, before) = k * n
                    /\ Between(0, Len(trace) + 1, after) = k * n
                    /\ \A a \in HandlerPlaces :
                           /\ Between(PlaceBefore(a), a, before) = n
                           /\ Between(PlaceBefore(a), a, after)
                                  = (IF PlaceBefore(a) = 0 THEN 0 ELSE n)

\* A dispatch invoked two handlers with middleware registered and a default
\* handler set.
C30_Witness ==
    /\ Routed
    /\ Cardinality(HandlerPlaces) >= 2
    /\ middlewares # <<>>
    /\ defaultHandler # NilHandler

(***************************************************************************)
(* Claims about identifiers whose waiter gave up.                          *)
(***************************************************************************)
\* C31: the service never removes an association on its own: an identifier
\* issued for a waiter stays in use with that waiter, also after the waiter
\* gave up waiting, until Free(id) or Clear() is called; Get(id) returns
\* the waiter meanwhile, and Request does not issue the identifier again.
C31_KeptUntilFreed ==
    /\ \A i \in IDs :
           (ledger[i].status = "held" \/ i \in abandoned) =>
               /\ ledger[i].status = "held"
               /\ i \in DOMAIN index
               /\ index[i] = ledger[i].waiter
    /\ (pc[1] = "get_ret" /\ id[1] \in abandoned) => got[1] = ledger[id[1]].waiter
    /\ (pc[1] = "req_ret" /\ ~rerr[1]) =>
           (rid[1] \notin abandoned /\ ledger[rid[1]].status # "held")

\* A Get of an identifier whose waiter gave up is returning that waiter,
\* after a later Request was issued a higher identifier.
C31_Witness ==
    /\ pc[1] = "get_ret"
    /\ id[1] \in abandoned
    /\ got[1] = ledger[id[1]].waiter /\ got[1] # NilWaiter
    /\ issued.last > id[1]

(***************************************************************************)
(* Claims about the fast path of match.                                    *)
(***************************************************************************)
\* C32: the exact-string fast path of match agrees with the level-by-level
\* comparison: match(filter, topic) is what routeIncludesTopic(filter,
\* topic) yields, also when filter and topic are the same string, which
\* the level-by-level comparison matches too.
C32_FastPathAgrees ==
    mResult # <<>> => mResult[1] = routeIncludesTopic(mRoute, mTopic)

\* The same for the filters that do not begin with "$share".
C32_PlainFilters ==
    (mResult # <<>> /\ ~HasPrefix(mRoute, Share)) =>
        mResult[1] = routeIncludesTopic(mRoute, mTopic)

\* match took the fast path on a string of more than one level that does
\* not begin with "$share", and the comparison of its levels matches too.
C32_FastPathTaken ==
    /\ mResult # <<>>
    /\ mRoute = mTopic
    /\ ~HasPrefix(mRoute, Share)
    /\ Len(Split(mRoute)) > 1
    /\ routeIncludesTopic(mRoute, mTopic) = Returned(TRUE)

(***************************************************************************)
(* Claims about the cursor of the identifier table.                        *)
(***************************************************************************)
\* The first step of Request past the lock moves the cursor on by one,
\* from MaxID back to 1, and leaves the table alone.
CursorAdvances ==
    \A p \in Procs :
        pc[p] = "req_probe" =>
            /\ lastIdUsed' = (IF lastIdUsed = MaxID THEN 1 ELSE lastIdUsed + 1)
            /\ id'[p] = lastIdUsed'
            /\ index' = index
\* The step in which Request fails leaves the table and the cursor, which
\* is where this Request moved it to, alone.
FailureKeepsCursor ==
    \A p \in Procs :
        (InRequest(p) /\ pc'[p] = "req_ret" /\ rerr'[p]) =>
            /\ index' = index
            /\ lastIdUsed = id[p]
            /\ lastIdUsed' = lastIdUsed

\* C33: a Request that fails with ErrNoMoreIDs leaves the table unchanged
\* but has moved the cursor lastIdUsed on by one (from MaxID back to 1), so
\* that failing Requests one after the other probe from later and later
\* identifiers.
C33_FailureAdvancesCursor == [][CursorAdvances /\ FailureKeepsCursor]_vars

\* A Request is failing after another Request failed, the cursor having
\* wrapped to 1 past the identifier last issued.
C33_Witness ==
    /\ pc[1] = "req_ret" /\ rerr[1]
    /\ issued.failed
    /\ lastIdUsed = 1
    /\ issued.last \in 1..(MaxID - 1)

\* The step of Clear, the only one that leaves the caller where it is,
\* empties the table and leaves the cursor alone.
ClearKeepsCursor == pc' = pc => (index' = <<>> /\ lastIdUsed' = lastIdUsed)
\* The cursor moves only inside Request.
CursorOnlyInRequest ==
    (\A p \in Procs : pc[p] \notin {"req_probe", "req_next"}) => lastIdUsed' = lastIdUsed
\* A Request on the empty table returns the identifier after the cursor,
\* 1 after MaxID.
RequestOnEmptyTable ==
    /\ (pc[1] = "req_probe" /\ index = <<>>) =>
           /\ pc'[1] = "req_store"
           /\ id'[1] = (IF lastIdUsed = MaxID THEN 1 ELSE lastIdUsed + 1)
    /\ pc[1] = "req_store" =>
           /\ pc'[1] = "req_ret" /\ ~rerr'[1]
           /\ rid'[1] = id[1]

LockedInHandler(p) == locking[p] # NoOp /\ p \in readers

\* C35: a handler that calls RegisterHandler, UnregisterHandler, Use or
\* DefaultHandler of the router from inside a dispatch never returns from
\* the call: the call waits for the lock that Route holds for the handler,
\* that dispatch never ends, and no later operation gets the lock, for
\* reading or for writing.
C35_ReentrantDeadlocks ==
    [][\A p \in Procs :
          LockedInHandler(p) =>
              /\ locking'[p] = locking[p]
              /\ dispatch'[p] = dispatch[p]
              /\ p \in readers' /\ readers' \subseteq readers
              /\ writer' = NoProc
              /\ UNCHANGED <<subscriptions, middlewares, defaultHandler>>]_vars

\* A default handler waits in its call of a registry operation, while the
\* other caller, outside Route, waits in a call of its own.
C35_Witness ==
    \E p, q \in Procs :
        /\ LockedInHandler(p)
        /\ Innermost(dispatch[p].fn).kind = "default"
        /\ routing[q].pc = "idle" /\ locking[q] # NoOp

RegistryOps == {"RegisterHandler", "UnregisterHandler", "Use", "DefaultHandler"}

\* C36: Route always releases the read lock when it ends, also when it ends
\* because a handler panicked: the lock is held for reading by the callers
\* inside Route and by nobody else, so that after a dispatch aborted by a
\* panic RegisterHandler, UnregisterHandler, Use and DefaultHandler get the
\* lock and complete.
C36_LockReleasedOnPanic ==
    /\ readers = {p \in Procs : routing[p].pc # "idle"}
    /\ \A p \in Procs :
           (p \in aborted /\ routing[p].pc = "idle") =>
               /\ p \notin readers
               /\ (readers = {} => Lockable)
    /\ lastOp.op \in RegistryOps => (outcome = "none" /\ readers = {})

\* A registry operation completed after every caller's Route call was
\* aborted by a panic, one of a handler inside a middleware.
C36_Witness ==
    /\ lastOp.op \in RegistryOps
    /\ aborted = Procs
    /\ middlewares # <<>>

(***************************************************************************)
(* C37.  Resolving a topic alias decides which filters are compared, and   *)
(* nothing else: the message is built from the packet in line 95, before   *)
(* the alias is looked at, and lines 120 and 127 hand that message on.     *)
(***************************************************************************)

\* the Route that just ended carried an alias and no topic, and the alias
\* resolved to a topic
AliasOnlyRouted ==
    /\ Routed
    /\ outcome = "returned"
    /\ lastOp.pb.alias # NoAlias
    /\ lastOp.pb.topic = ""
    /\ RoutedTopic # ""

\* C37: every function a Route ran, handler, default handler or middleware,
\* was given the topic written in the packet, so after an alias-only packet
\* each of them was given the empty topic and not the resolved one.
C37_MessageUnresolved ==
    Routed => \A k \in 1..Len(trace) : trace[k].topic = lastOp.pb.topic

\* an alias-only packet resolved to a topic whose handler ran
C37_Witness ==
    /\ AliasOnlyRouted
    /\ Len(RanRegistered) > 0
    /\ \A k \in 1..Len(trace) : trace[k].topic = ""

(***************************************************************************)
(* C38.  With handlers and middlewares that return, a Route call comes to  *)
(* its end and gives the lock back, and a call waiting in Lock() is served.*)
(***************************************************************************)

\* C38: every call of RegisterHandler, UnregisterHandler, Use or
\* DefaultHandler that waits for the lock completes in the end, and every
\* Route call under way ends with its caller no longer holding the lock: at
\* any time there is a later time at which the caller does not wait in
\* Lock(), and one at which it is outside Route and holds no lock.
C38_WaitingCallCompletes ==
    \A p \in Procs :
        /\ []<>(locking[p] = NoOp)
        /\ []<>(routing[p].pc = "idle" /\ p \notin readers)

\* a call waits in Lock() while another caller's Route runs a handler
C38_Witness ==
    \E p, q \in Procs :
        /\ p # q
        /\ locking[p] # NoOp
        /\ q \in readers
        /\ dispatch[q].pc = "route_handler"

=============================================================================
